---- MODULE Spec2Model ----
(***************************************************************************)
(* Display-configuration reconciliation engine of MultiMonitorConfig       *)
(* (monitor_api.py): apply_monitor_settings and the operations it calls,   *)
(* together with the part of the operating system it drives (device        *)
(* flags, live modes, staged changes, the global commit, the rescan).      *)
(***************************************************************************)
EXTENDS Integers, Sequences, FiniteSets, TLC

VARIABLES
    \* ---- operating system (user32) --------------------------------------
    osAll,            \* devices EnumDisplayDevicesW enumerates
    osConnected,      \* devices with DISPLAY_DEVICE_ATTACHED_TO_DESKTOP
    osPrimary,        \* the device with DISPLAY_DEVICE_PRIMARY_DEVICE
    osMode,           \* live mode of each device (Absent when detached)
    osPending,        \* changes staged with CDS_UPDATEREGISTRY | CDS_NORESET
    osModes,          \* the mode list EnumDisplaySettingsW(dev, i) enumerates
    \* ---- one call of apply_monitor_settings ------------------------------
    pc,               \* position in apply_monitor_settings
    monitors,         \* argument: the desired layout
    disable_extra,    \* argument: the policy flag
    connected,        \* local: get_connected_device_names()
    all_devices,      \* local: get_all_device_names()
    primary_devices,  \* local: devices flagged primary
    i,                \* index of the for loop that is running
    extraTodo,        \* devices the extra-disable loop has still to visit
    result,           \* the ApplyResult under construction
    \* ---- history ----------------------------------------------------------
    calls,            \* the mutating OS calls of this pass, in order
    before,           \* the live OS state when the pass began
    prev,             \* the finished pass that is being re-applied, or None
    \* ---- one call of get_best_display_mode --------------------------------
    enum_modes,       \* the modes EnumDisplaySettingsW(device_name, i) yields
    target,           \* the arguments of the call
    matched,          \* the value returned, Pending before the call
    \* ---- one call of _move_window_to_primary -------------------------------
    moved_hwnd,       \* argument: the window handle
    primary_rect,     \* argument: the primary work area (x, y, width, height)
    wp,               \* rcNormalPosition read by GetWindowPlacement
    wp_written,       \* rcNormalPosition handed to SetWindowPlacement
    \* ---- desktop, windows and the window-position cache -------------------
    monitor_rects,    \* rcMonitor of every monitor EnumDisplayMonitors yields
    windows,          \* the top-level window behind each handle, or None
    cache_file,       \* the content of window_cache.json
    \* ---- history ----------------------------------------------------------
    operations,       \* how many window-manager operations have run
    last_op,          \* the most recent operation and what it returned
    restore_log,      \* the restore_window_position calls of that operation
    removed,          \* per monitor origin, the windows evacuated from it
    \* ---- persisted files and what loading them gives ----------------------
    profiles_json,    \* the content of profiles.json
    window_cache_json, \* the content of window_cache.json, as found on disk
    profiles,         \* ProfileManager.profiles
    loaded_positions, \* the list load_positions_cache returned
    info,             \* a MonitorInfo
    info_dict,        \* the record of it in a saved profile
    info_loaded,      \* what MonitorInfo.from_dict made of the record
    raised,           \* the exception that reached the caller, or None
    \* ---- process names -----------------------------------------------------
    pid_cache,        \* _pid_cache: process id -> process name
    process_image,    \* the image name of the process behind each process id
    window_pid,       \* the process id GetWindowThreadProcessId gives a window
    resolved,         \* history: the names the last operation resolved
    enumeration       \* history: the last operation

reconcilerVars == << osAll, osConnected, osPrimary, osMode, osPending, osModes,
                     pc, monitors, disable_extra, connected, all_devices,
                     primary_devices, i, extraTodo, result, calls, before, prev >>

matcherVars == << enum_modes, target, matched >>

placementVars == << moved_hwnd, primary_rect, wp, wp_written >>

desktopVars == << monitor_rects, windows, cache_file,
                  operations, last_op, restore_log, removed >>

storeVars == << profiles_json, window_cache_json, profiles, loaded_positions,
                info, info_dict, info_loaded, raised >>

processVars == << pid_cache, process_image, window_pid, resolved, enumeration >>

\* ProfileManager.apply_profile in steps
VARIABLES
    ap_pc, ap_manage_windows, ap_profile_positions, ap_current_positions,
    ap_todo, ap_present, ap_windows, ap_cache, ap_saved, ap_result,
    ap_returned, ap_trace, ap_applications

orchestratorVars ==
    << ap_pc, ap_manage_windows, ap_profile_positions, ap_current_positions,
       ap_todo, ap_present, ap_windows, ap_cache, ap_saved, ap_result,
       ap_returned, ap_trace, ap_applications >>

vars ==
    << reconcilerVars, matcherVars, placementVars, desktopVars, storeVars,
       processVars, orchestratorVars >>

osVars == << osAll, osConnected, osPrimary, osMode, osPending, osModes >>

locals == << monitors, disable_extra, connected, all_devices,
             primary_devices, i, extraTodo, result >>

----------------------------------------------------------------------------
\* Bounds

\* longest desired layout that is applied
MaxLayoutLen == 2

DeviceNames == {"D1", "D2", "D3"}

\* Python's None, for a value that is otherwise a record
Absent == [absent |-> TRUE]

----------------------------------------------------------------------------
\* Data

\* DisplayMode: one entry of a device's mode list
DisplayMode(w, h, r, b) == [w |-> w, h |-> h, r |-> r, b |-> b]

\* DEVMODE: the fields of the mode descriptor the reconciler reads and writes
DEVMODE(w, h, x, y, r, o, b) ==
    [w |-> w, h |-> h, x |-> x, y |-> y, r |-> r, o |-> o, b |-> b]

\* MonitorInfo: one monitor specification of a layout
MonitorInfo(d, g, p, e) ==
    [device_name |-> d, width |-> g.w, height |-> g.h,
     position_x |-> g.x, position_y |-> g.y, refresh_rate |-> g.r,
     orientation |-> g.o, bits_per_pixel |-> g.b,
     is_primary |-> p, enabled |-> e]

\* The geometry a profile stores for each device
ProfileGeometry(d) ==
    CASE d = "D1" -> DEVMODE(2, 1, 0, 0, 60, 0, 32)
      [] d = "D2" -> DEVMODE(3, 2, 2, 0, 60, 0, 32)
      [] OTHER    -> DEVMODE(2, 1, 5, 0, 60, 0, 32)

\* The mode lists of the attached hardware
HardwareModes ==
    [d \in DeviceNames |->
        CASE d = "D1" -> << DisplayMode(2, 1, 60, 16), DisplayMode(2, 1, 60, 32) >>
          [] d = "D2" -> << DisplayMode(2, 1, 60, 32), DisplayMode(3, 2, 60, 32) >>
          [] OTHER    -> << DisplayMode(2, 1, 60, 32) >>]

AllSpecs ==
    { MonitorInfo(d, ProfileGeometry(d), p, e) :
        d \in DeviceNames, p \in BOOLEAN, e \in BOOLEAN }

\* Layouts as get_monitors() captures them and the settings window edits
\* them: one specification per device, at most one flagged primary.
Layouts ==
    { ms \in UNION { [1..n -> AllSpecs] : n \in 1..MaxLayoutLen } :
        /\ \A a, b \in DOMAIN ms : a # b => ms[a].device_name # ms[b].device_name
        /\ \A a, b \in DOMAIN ms :
              (ms[a].is_primary /\ ms[b].is_primary) => a = b }

\* ApplyResult(success=True)
ApplyResult ==
    [success |-> TRUE, applied |-> << >>, skipped |-> << >>,
     failed |-> << >>, disabled |-> << >>]

\* One entry of an outcome list: the device name and the text the code
\* appends to it in the f-string ("" when the bare name is appended)
Entry(d, note) == [dev |-> d, note |-> note]

Devs(list) == { list[k].dev : k \in DOMAIN list }

----------------------------------------------------------------------------
\* ModeMatcher

\* a later mode with the same score replaces the best one
ScanMode_LastWins(st, devmode, target_width, target_height, target_refresh, search_width, search_height) ==
    LET pixels == devmode.w * devmode.h
        highest_refresh ==
            IF st.highest_mode = Absent THEN 0 ELSE st.highest_mode.r
        st1 == IF \/ pixels > st.highest_pixels
                  \/ (pixels = st.highest_pixels /\ devmode.r > highest_refresh)
               THEN [st EXCEPT !.highest_pixels = pixels,
                               !.highest_mode = devmode]
               ELSE st
        exact_match == devmode.w = target_width /\ devmode.h = target_height
        native_match == devmode.w = search_width /\ devmode.h = search_height
        diff == IF devmode.r >= target_refresh
                THEN devmode.r - target_refresh
                ELSE target_refresh - devmode.r
        score == (IF exact_match THEN 1000 ELSE 900)
                 + (IF devmode.r = target_refresh THEN 100
                    ELSE IF 50 - diff > 0 THEN 50 - diff ELSE 0)
    IN  IF (exact_match \/ native_match) /\ score >= st1.best_score
        THEN [st1 EXCEPT !.best_score = score, !.best_mode = devmode]
        ELSE st1

\* the fallback candidate is chosen by pixel count alone
ScanMode_PixelsOnly(st, devmode, target_width, target_height, target_refresh, search_width, search_height) ==
    LET pixels == devmode.w * devmode.h
        st1 == IF pixels > st.highest_pixels
               THEN [st EXCEPT !.highest_pixels = pixels,
                               !.highest_mode = devmode]
               ELSE st
        exact_match == devmode.w = target_width /\ devmode.h = target_height
        native_match == devmode.w = search_width /\ devmode.h = search_height
        diff == IF devmode.r >= target_refresh
                THEN devmode.r - target_refresh
                ELSE target_refresh - devmode.r
        score == (IF exact_match THEN 1000 ELSE 900)
                 + (IF devmode.r = target_refresh THEN 100
                    ELSE IF 50 - diff > 0 THEN 50 - diff ELSE 0)
    IN  IF (exact_match \/ native_match) /\ score > st1.best_score
        THEN [st1 EXCEPT !.best_score = score, !.best_mode = devmode]
        ELSE st1

\* One iteration of the enumeration loop of get_best_display_mode: st holds
\* best_mode, best_score, highest_mode and highest_pixels.
ScanMode(st, devmode, target_width, target_height, target_refresh, search_width, search_height) ==
    LET pixels == devmode.w * devmode.h
        highest_refresh ==
            IF st.highest_mode = Absent THEN 0 ELSE st.highest_mode.r
        st1 == IF \/ pixels > st.highest_pixels
                  \/ (pixels = st.highest_pixels /\ devmode.r > highest_refresh)
               THEN [st EXCEPT !.highest_pixels = pixels,
                               !.highest_mode = devmode]
               ELSE st
        exact_match == devmode.w = target_width /\ devmode.h = target_height
        native_match == devmode.w = search_width /\ devmode.h = search_height
        diff == IF devmode.r >= target_refresh
                THEN devmode.r - target_refresh
                ELSE target_refresh - devmode.r
        score == (IF exact_match THEN 1000 ELSE 900)
                 + (IF devmode.r = target_refresh THEN 100
                    ELSE IF 50 - diff > 0 THEN 50 - diff ELSE 0)
    IN  IF (exact_match \/ native_match) /\ score > st1.best_score
        THEN [st1 EXCEPT !.best_score = score, !.best_mode = devmode]
        ELSE st1

RECURSIVE ScanModes(_, _, _, _, _, _, _, _)
ScanModes(modes, k, st, target_width, target_height, target_refresh, search_width, search_height) ==
    IF k > Len(modes) THEN st
    ELSE ScanModes(modes, k + 1,
                   ScanMode(st, modes[k], target_width, target_height,
                            target_refresh, search_width, search_height),
                   target_width, target_height, target_refresh,
                   search_width, search_height)

\* the search resolution is never swapped
get_best_display_mode_NoSwap(modes, target_width, target_height, target_refresh, is_rotated, fallback_to_any) ==
    LET swap == FALSE
        search_width == IF swap THEN target_height ELSE target_width
        search_height == IF swap THEN target_width ELSE target_height
        st == ScanModes(modes, 1,
                        [best_mode |-> Absent, best_score |-> -1,
                         highest_mode |-> Absent, highest_pixels |-> 0],
                        target_width, target_height, target_refresh,
                        search_width, search_height)
    IN  IF st.best_mode # Absent THEN st.best_mode
        ELSE IF fallback_to_any /\ st.highest_mode # Absent
             THEN st.highest_mode
             ELSE Absent

\* get_best_display_mode over the mode list the device enumerates
get_best_display_mode(modes, target_width, target_height, target_refresh, is_rotated, fallback_to_any) ==
    LET swap == is_rotated \/ target_height > target_width
        search_width == IF swap THEN target_height ELSE target_width
        search_height == IF swap THEN target_width ELSE target_height
        st == ScanModes(modes, 1,
                        [best_mode |-> Absent, best_score |-> -1,
                         highest_mode |-> Absent, highest_pixels |-> 0],
                        target_width, target_height, target_refresh,
                        search_width, search_height)
    IN  IF st.best_mode # Absent THEN st.best_mode
        ELSE IF fallback_to_any /\ st.highest_mode # Absent
             THEN st.highest_mode
             ELSE Absent

----------------------------------------------------------------------------
\* Mode descriptors the reconciler stages

\* enable_monitor: the DEVMODE it builds for a detached device
EnableDevmode(modes, monitor) ==
    LET is_rotated == \/ monitor.height > monitor.width
                      \/ monitor.orientation \in {1, 3}
        best_mode == get_best_display_mode(modes, monitor.width, monitor.height,
                                           monitor.refresh_rate, is_rotated, TRUE)
        base == IF best_mode # Absent
                THEN DEVMODE(best_mode.w, best_mode.h, 0, 0,
                             best_mode.r, 0, best_mode.b)
                ELSE IF is_rotated
                     THEN DEVMODE(monitor.height, monitor.width, 0, 0,
                                  monitor.refresh_rate, 0, monitor.bits_per_pixel)
                     ELSE DEVMODE(monitor.width, monitor.height, 0, 0,
                                  monitor.refresh_rate, 0, monitor.bits_per_pixel)
    IN  [base EXCEPT !.x = monitor.position_x, !.y = monitor.position_y,
                     !.o = monitor.orientation]

\* disable_monitor: the current mode with zero width/height and position
DetachDevmode(current) ==
    [current EXCEPT !.w = 0, !.h = 0, !.x = 0, !.y = 0]

\* configure pass: the current mode overwritten from the specification
ConfigureDevmode(current, monitor) ==
    [current EXCEPT !.w = monitor.width, !.h = monitor.height,
                    !.x = monitor.position_x, !.y = monitor.position_y,
                    !.r = monitor.refresh_rate, !.o = monitor.orientation,
                    !.b = monitor.bits_per_pixel]

IsDetach(devmode) == devmode.w = 0 /\ devmode.h = 0

----------------------------------------------------------------------------
\* Operating system

\* A change staged for one device: the descriptor and the CDS_SET_PRIMARY bit
Staged(devmode, set_primary) == [mode |-> devmode, primary |-> set_primary]

\* One record of the history: an OS call of the pass and whether it succeeded
Call(op, d, ok) == [op |-> op, dev |-> d, ok |-> ok]

\* The part of the OS state that calls change
Os == [connected |-> osConnected, primary |-> osPrimary,
       mode |-> osMode, pending |-> osPending]

SetOs(os) ==
    /\ osConnected' = os.connected
    /\ osPrimary' = os.primary
    /\ osMode' = os.mode
    /\ osPending' = os.pending
    /\ UNCHANGED << osAll, osModes >>

\* The mode the OS gives a device it attaches on its own in a rescan
RescanMode(d) ==
    LET m == osModes[d][1]
        g == ProfileGeometry(d)
    IN  DEVMODE(m.w, m.h, g.x, g.y, m.r, 0, m.b)

\* SetDisplayConfig(SDC_APPLY | SDC_TOPOLOGY_EXTEND): the desktop is extended
\* onto the detached devices in `attach` (those physically present)
OsDetect(os, attach) ==
    [os EXCEPT !.connected = @ \cup attach,
               !.mode = [d \in DeviceNames |->
                           IF d \in attach THEN RescanMode(d) ELSE @[d]]]

\* ChangeDisplaySettingsExW(device, devmode, CDS_UPDATEREGISTRY | CDS_NORESET
\* [| CDS_SET_PRIMARY]): accepted, the change is staged without effect;
\* rejected, nothing changes
OsStage(os, d, devmode, set_primary, ok) ==
    IF ok THEN [os EXCEPT !.pending[d] = Staged(devmode, set_primary)] ELSE os

\* The devices a commit detaches, attaches, and makes primary
PendingDevices(os) == { d \in DeviceNames : os.pending[d] # Absent }
PendingDetach(os) == { d \in PendingDevices(os) : IsDetach(os.pending[d].mode) }
PendingSet(os) == PendingDevices(os) \ PendingDetach(os)
PendingPrimary(os) == { d \in PendingSet(os) : os.pending[d].primary }

\* ChangeDisplaySettingsExW(None, None, None, 0, None): every staged change
\* takes effect at once; on failure the live state stays as it was
OsCommit(os, ok) ==
    IF ok
    THEN [connected |-> (os.connected \ PendingDetach(os)) \cup PendingSet(os),
          primary |-> IF PendingPrimary(os) # {}
                      THEN CHOOSE d \in PendingPrimary(os) : TRUE
                      ELSE os.primary,
          mode |-> [d \in DeviceNames |->
                      IF d \in PendingDetach(os) THEN Absent
                      ELSE IF d \in PendingSet(os) THEN os.pending[d].mode
                      ELSE os.mode[d]],
          pending |-> [d \in DeviceNames |-> Absent]]
    ELSE [os EXCEPT !.pending = [d \in DeviceNames |-> Absent]]

----------------------------------------------------------------------------
\* DisplayEnumerator

get_connected_device_names == osConnected

get_all_device_names == osAll

\* the enumeration tests a flag no device carries
QueryPrimaryDevices_None == {}

\* the enumeration of lines 452-460: every device flagged primary
QueryPrimaryDevices == { osPrimary }

----------------------------------------------------------------------------
\* ConfigurationReconciler: apply_monitor_settings

StageOutcomes == {"nocurrent", "rejected", "accepted"}

profile_device_names == { monitors[k].device_name : k \in DOMAIN monitors }

needs_reenable ==
    \E k \in DOMAIN monitors :
        /\ monitors[k].enabled
        /\ monitors[k].device_name \notin connected
        /\ monitors[k].device_name \in all_devices

\* the set queried before detect_displays() is kept
RequeryConnected_Stale(live, stale) == stale

\* the set a local holds after detect_displays(): queried again
RequeryConnected(live, stale) == live

\* the protection test left out
IsPrimaryDevice_Never(d) == FALSE

\* "can't disable primary": the test of both disable passes
IsPrimaryDevice(d) == d \in primary_devices

\* the test that guards the final ChangeDisplaySettingsExW(None, ...)
HasStagedOutcome(r) == r.applied # << >> \/ r.disabled # << >>

\* result.<list>.append(...)
Record(r, list, d, note) == [r EXCEPT ![list] = Append(@, Entry(d, note))]

\* result.failed.append(...); result.success = False
RecordFailure(r, d, note) == [Record(r, "failed", d, note) EXCEPT !.success = FALSE]

\* the protected device is passed over without a record
RecordProtected_Silent(r, d) == r

\* the primary-protection branch of the disable pass
RecordProtected(r, d) == Record(r, "failed", d, "primary cannot be disabled")

\* where the disable loop goes after the specification at index k
AfterDisable(k) == IF k >= Len(monitors) THEN "extra" ELSE "disable"

\* where the configure loop goes after the specification at index k
AfterConfigure(k) == IF k >= Len(monitors) THEN "commit" ELSE "configure"

\* the absent device is booked as a failure
RecordSkipped_AsFailure(r, d) == [Record(r, "failed", d, "") EXCEPT !.success = FALSE]

\* result.skipped.append(device_name) of the disable pass
RecordSkipped(r, d) == Record(r, "skipped", d, "")

\* the detached device is booked as a failure
RecordAlreadyDisabled_AsFailure(r, d) == [Record(r, "failed", d, "") EXCEPT !.success = FALSE]

\* "Already disabled": result.disabled.append(device_name) without a call
RecordAlreadyDisabled(r, d) == Record(r, "disabled", d, "")

\* the batch flag is not passed: each change is applied at once
UseNoReset_Off == FALSE

\* the use_noreset argument apply_monitor_settings passes to disable_monitor
\* and enable_monitor
UseNoReset == TRUE

\* the tail of disable_monitor and enable_monitor: "if not using noreset,
\* apply immediately"
StageOrApply(os, op, d, devmode, set_primary, use_noreset, ok) ==
    /\ SetOs(IF ~use_noreset /\ ok
             THEN OsCommit(OsStage(os, d, devmode, set_primary, ok), TRUE)
             ELSE OsStage(os, d, devmode, set_primary, ok))
    /\ calls' = IF ~use_noreset /\ ok
                THEN calls \o << Call(op, d, ok), Call("commit", "", TRUE) >>
                ELSE Append(calls, Call(op, d, ok))

\* disable_monitor(device_name, use_noreset), returning out = "accepted"
disable_monitor(d, use_noreset, out) ==
    IF out = "nocurrent"
    THEN /\ calls' = Append(calls, Call("current", d, FALSE))
         /\ UNCHANGED osVars
    ELSE /\ osMode[d] # Absent
         /\ StageOrApply(Os, "detach", d, DetachDevmode(osMode[d]), FALSE,
                         use_noreset, out = "accepted")

\* enable_monitor(device_name, monitor, use_noreset), returning ok
enable_monitor(d, monitor, use_noreset, ok) ==
    StageOrApply(Os, "enable", d, EnableDevmode(osModes[d], monitor),
                 monitor.is_primary, use_noreset, ok)

\* lines 431-436: the result object and the first two queries
Begin(ms, de) ==
    /\ pc = "idle"
    /\ monitors' = ms
    /\ disable_extra' = de
    /\ result' = ApplyResult
    /\ connected' = get_connected_device_names
    /\ all_devices' = get_all_device_names
    /\ primary_devices' = {}
    /\ i' = 1
    /\ extraTodo' = {}
    /\ calls' = << >>
    /\ before' = [connected |-> osConnected, primary |-> osPrimary, mode |-> osMode]
    /\ pc' = "prescan"
    /\ UNCHANGED << osVars, prev >>

\* a caller applies a profile
Apply ==
    /\ pc = "idle"
    /\ prev = Absent
    /\ \E ms \in Layouts, de \in BOOLEAN : Begin(ms, de)

\* a caller applies the same profile, with the same flag, a second time
Reapply ==
    /\ pc = "idle"
    /\ prev # Absent
    /\ Begin(prev.monitors, prev.disable_extra)

\* lines 444-448: detect_displays(), then the two queries again
Detect ==
    /\ pc = "prescan"
    /\ needs_reenable
    /\ \E attach \in SUBSET { d \in osAll \ osConnected : osModes[d] # << >> } :
          SetOs(OsDetect(Os, attach))
    /\ connected' = RequeryConnected(osConnected', connected)
    /\ all_devices' = get_all_device_names
    /\ calls' = Append(calls, Call("detect", "", TRUE))
    /\ pc' = "primary"
    /\ UNCHANGED << monitors, disable_extra, primary_devices, i, extraTodo,
                    result, before, prev >>

\* line 444 with needs_reenable false
NoDetect ==
    /\ pc = "prescan"
    /\ ~needs_reenable
    /\ pc' = "primary"
    /\ UNCHANGED << osVars, locals, calls, before, prev >>

\* lines 450-460: the devices flagged primary
QueryPrimary ==
    /\ pc = "primary"
    /\ primary_devices' = QueryPrimaryDevices
    /\ i' = 1
    /\ pc' = "disable"
    /\ UNCHANGED << osVars, monitors, disable_extra, connected, all_devices,
                    extraTodo, result, calls, before, prev >>

\* lines 463-483: one iteration of the disable pass
DisableStep ==
    /\ pc = "disable"
    /\ LET monitor == monitors[i]
           d == monitor.device_name
       IN  \/ /\ d \notin all_devices
              /\ result' = RecordSkipped(result, d)
              /\ UNCHANGED << osVars, calls >>
           \/ /\ d \in all_devices
              /\ monitor.enabled
              /\ UNCHANGED << osVars, calls, result >>
           \/ /\ d \in all_devices
              /\ ~monitor.enabled
              /\ d \notin connected
              /\ result' = RecordAlreadyDisabled(result, d)
              /\ UNCHANGED << osVars, calls >>
           \/ /\ d \in all_devices
              /\ ~monitor.enabled
              /\ d \in connected
              /\ IsPrimaryDevice(d)
              /\ result' = RecordProtected(result, d)
              /\ UNCHANGED << osVars, calls >>
           \/ /\ d \in all_devices
              /\ ~monitor.enabled
              /\ d \in connected
              /\ ~IsPrimaryDevice(d)
              /\ \E out \in StageOutcomes :
                    /\ disable_monitor(d, UseNoReset, out)
                    /\ result' = IF out = "accepted"
                                  THEN Record(result, "disabled", d, "")
                                  ELSE RecordFailure(result, d, "")
    /\ i' = i + 1
    /\ pc' = AfterDisable(i)
    /\ extraTodo' = IF AfterDisable(i) = "extra" /\ disable_extra
                     THEN connected ELSE {}
    /\ UNCHANGED << monitors, disable_extra, connected, all_devices,
                    primary_devices, before, prev >>

\* lines 486-493: one iteration of the extra-disable pass; the loop runs
\* over a Python set, in no defined order
ExtraStep ==
    /\ pc = "extra"
    /\ \E d \in extraTodo :
          /\ extraTodo' = extraTodo \ {d}
          /\ \/ /\ d \in profile_device_names
                /\ UNCHANGED << osVars, calls, result >>
             \/ /\ d \notin profile_device_names
                /\ IsPrimaryDevice(d)
                /\ UNCHANGED << osVars, calls, result >>
             \/ /\ d \notin profile_device_names
                /\ ~IsPrimaryDevice(d)
                /\ \E out \in StageOutcomes :
                      /\ disable_monitor(d, UseNoReset, out)
                      /\ result' = IF out = "accepted"
                                    THEN Record(result, "disabled", d, "")
                                    ELSE result
    /\ UNCHANGED << pc, monitors, disable_extra, connected, all_devices,
                    primary_devices, i, before, prev >>

\* the extra-disable pass is over, or line 486 found the flag off
ExtraDone ==
    /\ pc = "extra"
    /\ extraTodo = {}
    /\ i' = 1
    /\ pc' = "configure"
    /\ UNCHANGED << osVars, monitors, disable_extra, connected, all_devices,
                    primary_devices, extraTodo, result, calls, before, prev >>

\* lines 496-553: one iteration of the configure / re-enable pass
ConfigureStep ==
    /\ pc = "configure"
    /\ LET monitor == monitors[i]
           d == monitor.device_name
       IN  \/ /\ d \notin all_devices
              /\ UNCHANGED << osVars, calls, result >>
           \/ /\ d \in all_devices
              /\ ~monitor.enabled
              /\ UNCHANGED << osVars, calls, result >>
           \/ /\ d \in all_devices
              /\ monitor.enabled
              /\ d \notin connected
              /\ \E ok \in BOOLEAN :
                    /\ enable_monitor(d, monitor, UseNoReset, ok)
                    /\ result' = IF ok
                                  THEN Record(result, "applied", d, "re-enabled")
                                  ELSE RecordFailure(result, d, "failed to enable")
           \/ /\ d \in all_devices
              /\ monitor.enabled
              /\ d \in connected
              /\ \/ /\ calls' = Append(calls, Call("current", d, FALSE))
                    /\ result' = IF d \notin Devs(result.skipped)
                                  THEN Record(result, "skipped", d, "")
                                  ELSE result
                    /\ UNCHANGED osVars
                 \/ /\ osMode[d] # Absent
                    /\ \E ok \in BOOLEAN :
                          /\ SetOs(OsStage(Os, d, ConfigureDevmode(osMode[d], monitor),
                                           monitor.is_primary, ok))
                          /\ calls' = Append(calls, Call("configure", d, ok))
                          /\ result' = IF ok
                                        THEN Record(result, "applied", d, "")
                                        ELSE RecordFailure(result, d, "")
    /\ i' = i + 1
    /\ pc' = AfterConfigure(i)
    /\ UNCHANGED << monitors, disable_extra, connected, all_devices,
                    primary_devices, extraTodo, before, prev >>

\* lines 555-559: the global commit
Commit ==
    /\ pc = "commit"
    /\ \/ /\ HasStagedOutcome(result)
          /\ \E ok \in BOOLEAN :
                /\ SetOs(OsCommit(Os, ok))
                /\ calls' = Append(calls, Call("commit", "", ok))
                /\ result' = IF ok THEN result
                              ELSE [result EXCEPT !.success = FALSE]
       \/ /\ ~HasStagedOutcome(result)
          /\ UNCHANGED << osVars, calls, result >>
    /\ pc' = "done"
    /\ UNCHANGED << monitors, disable_extra, connected, all_devices,
                    primary_devices, i, extraTodo, before, prev >>

\* every OS call of the pass succeeded
AllAccepted == \A k \in DOMAIN calls : calls[k].ok

\* line 561: return result. A pass that reported success and in which the
\* OS refused nothing is remembered when the caller is about to apply the
\* same profile a second time.
Return ==
    /\ pc = "done"
    /\ pc' = "idle"
    /\ \/ /\ prev = Absent
          /\ result.success
          /\ AllAccepted
          /\ prev' = [monitors |-> monitors, disable_extra |-> disable_extra,
                       result |-> result]
       \/ prev' = Absent
    /\ monitors' = << >>
    /\ disable_extra' = FALSE
    /\ connected' = {}
    /\ all_devices' = {}
    /\ primary_devices' = {}
    /\ i' = 1
    /\ extraTodo' = {}
    /\ result' = ApplyResult
    /\ calls' = << >>
    /\ before' = Absent
    /\ UNCHANGED osVars

----------------------------------------------------------------------------
\* Specification

\* The live modes before the first profile is applied
InitialMode(d) ==
    CASE d = "D1" -> DEVMODE(2, 1, 0, 0, 60, 0, 16)
      [] d = "D2" -> DEVMODE(2, 1, 2, 0, 60, 0, 32)
      [] OTHER    -> DEVMODE(2, 1, 5, 0, 60, 0, 32)

\* The mode lists EnumDisplaySettingsW can enumerate: those of the attached
\* hardware, or the same with the third output's display unplugged (the
\* output is still enumerated as a device but reports no mode)
ModeLists == { HardwareModes, [HardwareModes EXCEPT !["D3"] = << >>] }

ReconcilerInit ==
    /\ osAll \in { {"D1", "D2"}, DeviceNames }
    /\ osModes \in ModeLists
    /\ osModes["D3"] = << >> => "D3" \in osAll
    /\ osConnected = { d \in osAll : osModes[d] # << >> }
    /\ osPrimary = "D1"
    /\ osMode = [d \in DeviceNames |->
                   IF d \in osConnected THEN InitialMode(d) ELSE Absent]
    /\ osPending = [d \in DeviceNames |-> Absent]
    /\ pc = "idle"
    /\ monitors = << >>
    /\ disable_extra = FALSE
    /\ connected = {}
    /\ all_devices = {}
    /\ primary_devices = {}
    /\ i = 1
    /\ extraTodo = {}
    /\ result = ApplyResult
    /\ calls = << >>
    /\ before = Absent
    /\ prev = Absent

\* no call of get_best_display_mode is under way
MatcherIdle ==
    /\ enum_modes = << >>
    /\ target = Absent
    /\ matched = Absent

\* no call of _move_window_to_primary is under way
PlacementIdle ==
    /\ moved_hwnd = 0
    /\ primary_rect = Absent
    /\ wp = Absent
    /\ wp_written = Absent

\* the window manager has not been used
DesktopIdle ==
    /\ monitor_rects = {}
    /\ windows = << >>
    /\ cache_file = << >>
    /\ operations = 0
    /\ last_op = Absent
    /\ restore_log = << >>
    /\ removed = << >>

\* no file has been loaded
StoreIdle ==
    /\ profiles_json = Absent
    /\ window_cache_json = Absent
    /\ profiles = Absent
    /\ loaded_positions = Absent
    /\ info = Absent
    /\ info_dict = Absent
    /\ info_loaded = Absent
    /\ raised = Absent

\* no process name has been asked for
ProcessIdle ==
    /\ pid_cache = << >>
    /\ process_image = << >>
    /\ window_pid = << >>
    /\ resolved = << >>
    /\ enumeration = Absent

OrchestratorIdle ==
    /\ ap_pc = "idle"
    /\ ap_manage_windows = FALSE
    /\ ap_profile_positions = {}
    /\ ap_current_positions = {}
    /\ ap_todo = {}
    /\ ap_present = {}
    /\ ap_windows = << >>
    /\ ap_cache = << >>
    /\ ap_saved = << >>
    /\ ap_result = Absent
    /\ ap_returned = Absent
    /\ ap_trace = << >>
    /\ ap_applications = 0

\* the variables apply_monitor_settings does not touch
windowManagerVars ==
    << matcherVars, placementVars, desktopVars, storeVars, processVars,
       orchestratorVars >>

Init ==
    /\ ReconcilerInit
    /\ MatcherIdle
    /\ PlacementIdle
    /\ DesktopIdle
    /\ StoreIdle
    /\ ProcessIdle
    /\ OrchestratorIdle

Next ==
    \/ Apply /\ UNCHANGED windowManagerVars
    \/ Reapply /\ UNCHANGED windowManagerVars
    \/ Detect /\ UNCHANGED windowManagerVars
    \/ NoDetect /\ UNCHANGED windowManagerVars
    \/ QueryPrimary /\ UNCHANGED windowManagerVars
    \/ DisableStep /\ UNCHANGED windowManagerVars
    \/ ExtraStep /\ UNCHANGED windowManagerVars
    \/ ExtraDone /\ UNCHANGED windowManagerVars
    \/ ConfigureStep /\ UNCHANGED windowManagerVars
    \/ Commit /\ UNCHANGED windowManagerVars
    \/ Return /\ UNCHANGED windowManagerVars

Spec == Init /\ [][Next]_vars

----------------------------------------------------------------------------
\* ModeMatcher on its own: get_best_display_mode over every mode list

\* longest mode list a device enumerates
MaxModes == 3

\* the resolutions and refresh rates of the enumerated modes
ModeSizes == { <<2, 1>>, <<1, 2>>, <<3, 2>> }
ModeRefreshRates == {59, 60, 61, 120}

EnumerableModes ==
    { DisplayMode(s[1], s[2], r, 32) : s \in ModeSizes, r \in ModeRefreshRates }

ModeSequences == UNION { [1..n -> EnumerableModes] : n \in 0..MaxModes }

\* the arguments enable_monitor and other callers pass
Targets ==
    [width : {1, 2}, height : {1, 2}, refresh : {60},
     is_rotated : BOOLEAN, fallback_to_any : BOOLEAN]

\* the value of `matched` while the call has not returned
Pending == [pending |-> TRUE]

\* the display hardware is at rest while the matcher is studied
ReconcilerAtRest ==
    /\ ReconcilerInit
    /\ osAll = DeviceNames
    /\ osModes = HardwareModes

MatcherInit ==
    /\ ReconcilerAtRest
    /\ PlacementIdle
    /\ DesktopIdle
    /\ StoreIdle
    /\ ProcessIdle
    /\ OrchestratorIdle
    /\ enum_modes \in ModeSequences
    /\ target \in { tg \in Targets : tg.width # tg.height }
    /\ matched = Pending

\* the call runs to its return statement
Match ==
    /\ matched = Pending
    /\ matched' = get_best_display_mode(enum_modes, target.width, target.height,
                                        target.refresh, target.is_rotated,
                                        target.fallback_to_any)
    /\ UNCHANGED << enum_modes, target, reconcilerVars,
                    placementVars, desktopVars, storeVars, processVars,
                    orchestratorVars >>

\* the next call for the same device, with other arguments
MatchAgain ==
    /\ matched # Pending
    /\ target' \in { tg \in Targets : tg.width # tg.height }
    /\ matched' = Pending
    /\ UNCHANGED << enum_modes, reconcilerVars, placementVars, desktopVars,
                    storeVars, processVars,
                    orchestratorVars >>

MatcherNext ==
    \/ Match
    \/ MatchAgain

MatcherSpec == MatcherInit /\ [][MatcherNext]_vars

----------------------------------------------------------------------------
\* Properties

Buckets == {"applied", "skipped", "disabled", "failed"}

\* the outcome lists of r in which device d appears
BucketsOf(r, d) == { b \in Buckets : d \in Devs(r[b]) }

\* the history records of the calls made for device d
CallsFor(d) == { k \in DOMAIN calls : calls[k].dev = d }

StageOps == {"detach", "enable", "configure"}

\* the disable pass is over
DisablePassDone == pc \in {"extra", "configure", "commit", "done"}

\* specification k asks to disable the device that was the connected primary
\* when the pass began
AsksToDisablePrimary(k) ==
    /\ ~monitors[k].enabled
    /\ monitors[k].device_name = before.primary
    /\ monitors[k].device_name \in before.connected

\* C1: a specification with enabled=false that names the connected primary
\* device lands in `failed`, never in `disabled`, and no detach is staged
\* for that device.
C1_PrimaryProtection ==
    pc # "idle" =>
        \A k \in DOMAIN monitors :
            AsksToDisablePrimary(k) =>
                LET d == monitors[k].device_name
                IN  /\ d \notin Devs(result.disabled)
                    /\ \A c \in CallsFor(d) : calls[c].op # "detach"
                    /\ DisablePassDone => d \in Devs(result.failed)

\* C1 witness: a finished pass that was asked to disable the primary
C1_Witness ==
    /\ pc = "done"
    /\ \E k \in DOMAIN monitors :
          /\ AsksToDisablePrimary(k)
          /\ monitors[k].device_name \in Devs(result.failed)

\* C2: over any sequence of passes some device stays connected, the primary
\* among them, and no pass stages a detach for the device that is primary
\* when its disable phases start, in either disable pass.
C2_NeverHeadless ==
    /\ osConnected # {}
    /\ osPrimary \in osConnected
    /\ pc # "idle" =>
          \A c \in DOMAIN calls :
              calls[c].op = "detach" => calls[c].dev # before.primary

\* C2 witness: a pass with disable_extra that was asked to disable the
\* primary, detached every other device and left the primary alone
C2_Witness ==
    /\ pc = "done"
    /\ disable_extra
    /\ \E k \in DOMAIN monitors : AsksToDisablePrimary(k)
    /\ \E c \in DOMAIN calls : calls[c].op = "detach" /\ calls[c].ok
    /\ Cardinality(before.connected) > 1
    /\ osConnected = {before.primary}

SomeCallFailed == \E c \in DOMAIN calls : ~calls[c].ok

\* the global commit of the pass failed
CommitFailed == \E c \in DOMAIN calls : calls[c].op = "commit" /\ ~calls[c].ok

\* C4: the success flag is false whenever the commit failed, a named device
\* was recorded failed, or the pass was asked to disable the current primary.
C4_SuccessFlag ==
    pc = "done" =>
        ( ( \/ CommitFailed
            \/ \E k \in DOMAIN monitors :
                  monitors[k].device_name \in Devs(result.failed)
            \/ \E k \in DOMAIN monitors : AsksToDisablePrimary(k) )
          => ~result.success )

\* C5: a specification whose device the OS does not know is recorded
\* skipped and nowhere else, no OS call is made for it, it does not by
\* itself clear the success flag, and every other specification is still
\* classified.
C5_AbsentSkipped ==
    pc = "done" =>
        \A k \in DOMAIN monitors :
            monitors[k].device_name \notin osAll =>
                /\ BucketsOf(result, monitors[k].device_name) = {"skipped"}
                /\ CallsFor(monitors[k].device_name) = {}
                /\ ~result.success =>
                      \/ SomeCallFailed
                      \/ \E l \in DOMAIN monitors :
                            /\ l # k
                            /\ monitors[l].device_name \in Devs(result.failed)
                /\ \A l \in DOMAIN monitors :
                      BucketsOf(result, monitors[l].device_name) # {}

\* C5 witness: a successful pass that skipped an unknown device and applied
\* the other specification
C5_Witness ==
    /\ pc = "done"
    /\ result.success
    /\ \E k, l \in DOMAIN monitors :
          /\ monitors[k].device_name \notin osAll
          /\ monitors[k].device_name \in Devs(result.skipped)
          /\ monitors[l].device_name \in Devs(result.applied)

SpecMode(m) ==
    DEVMODE(m.width, m.height, m.position_x, m.position_y,
            m.refresh_rate, m.orientation, m.bits_per_pixel)

\* C7: when a layout was applied successfully with every OS call accepted
\* and is applied again (the OS again accepting every call), every enabled
\* device that is already configured as specified is recorded applied,
\* every named device is classified as in the first pass, and no live mode
\* or attachment state changes.
C7_Idempotence ==
    (pc = "done" /\ prev # Absent /\ AllAccepted) =>
        /\ \A k \in DOMAIN monitors :
              ( /\ monitors[k].enabled
                /\ monitors[k].device_name \in before.connected
                /\ before.mode[monitors[k].device_name] = SpecMode(monitors[k]) )
              => monitors[k].device_name \in Devs(result.applied)
        /\ \A k \in DOMAIN monitors :
              BucketsOf(result, monitors[k].device_name)
                  = BucketsOf(prev.result, monitors[k].device_name)
        /\ osConnected = before.connected
        /\ osMode = before.mode

\* the positions in the history of the global commit
CommitCalls == { c \in DOMAIN calls : calls[c].op = "commit" }

\* C8, state part: at most one commit per pass, it is the last OS call of
\* the pass, and a finished pass that recorded a device applied or disabled
\* has issued it.
C8_CommitOnceLast ==
    pc # "idle" =>
        /\ Cardinality(CommitCalls) <= 1
        /\ \A c \in CommitCalls : c = Len(calls)
        /\ (pc = "done" /\ (result.applied # << >> \/ result.disabled # << >>))
              => CommitCalls # {}

\* C8, step part: a step of the disable, extra-disable or configure pass
\* leaves every live attachment, mode and primary flag as it was.
C8_StagedWithoutEffect ==
    pc \in {"disable", "extra", "configure"} =>
        /\ osConnected' = osConnected
        /\ osMode' = osMode
        /\ osPrimary' = osPrimary

\* C8: two-phase apply: per-device changes are staged without immediate
\* effect, and the commit is issued at most once, after the last stage
\* call, whenever a device was recorded applied or disabled.
C8_TwoPhase == [] C8_CommitOnceLast /\ [][C8_StagedWithoutEffect]_vars

\* C8 witness: a finished pass with two accepted stage calls followed by
\* the commit, which changed the live state
C8_Witness ==
    /\ pc = "done"
    /\ Len(calls) >= 3
    /\ calls[Len(calls)] = Call("commit", "", TRUE)
    /\ \E a, b \in DOMAIN calls :
          /\ a < b
          /\ calls[a].op \in StageOps /\ calls[a].ok
          /\ calls[b].op \in StageOps /\ calls[b].ok
    /\ osConnected # before.connected

\* some specification asks for a device that was known but detached when
\* the pass began
NeededReenable ==
    \E k \in DOMAIN monitors :
        /\ monitors[k].enabled
        /\ monitors[k].device_name \in osAll
        /\ monitors[k].device_name \notin before.connected

ExpectedBucket(k) ==
    LET m == monitors[k]
        d == m.device_name
        accepted == \E c \in CallsFor(d) : calls[c].op \in StageOps /\ calls[c].ok
    IN  IF d \notin all_devices THEN "skipped"
        ELSE IF ~m.enabled
             THEN IF d \notin connected THEN "disabled"
                  ELSE IF d \in primary_devices THEN "failed"
                  ELSE IF accepted THEN "disabled" ELSE "failed"
        ELSE IF \E c \in CallsFor(d) : calls[c].op = "current" THEN "skipped"
        ELSE IF accepted THEN "applied" ELSE "failed"

\* C10: a device whose staged change (detach, re-enable, reconfigure) the
\* OS rejects is recorded failed and the success flag is false, and every
\* specification is still classified as its own device's state and call
\* outcome determine.
C10_RejectionIsolated ==
    pc = "done" =>
        /\ \A c \in DOMAIN calls :
              (calls[c].op \in StageOps /\ ~calls[c].ok) =>
                  /\ calls[c].dev \in Devs(result.failed)
                  /\ ~result.success
        /\ \A k \in DOMAIN monitors :
              BucketsOf(result, monitors[k].device_name) = {ExpectedBucket(k)}

\* The same rejection rule restricted to the devices the layout names:
\* a rejected stage call for a named device is recorded failed and clears
\* the success flag, and every specification is classified as expected.
C10_NamedDevices ==
    pc = "done" =>
        /\ \A c \in DOMAIN calls :
              ( /\ calls[c].op \in StageOps
                /\ ~calls[c].ok
                /\ calls[c].dev \in profile_device_names ) =>
                  /\ calls[c].dev \in Devs(result.failed)
                  /\ ~result.success
        /\ \A k \in DOMAIN monitors :
              BucketsOf(result, monitors[k].device_name) = {ExpectedBucket(k)}

\* a pass in which the OS rejected a stage call for a named device
C10_NamedDevices_Witness ==
    /\ pc = "done"
    /\ \E c \in DOMAIN calls :
          /\ calls[c].op \in StageOps
          /\ ~calls[c].ok
          /\ calls[c].dev \in profile_device_names
    /\ \E k \in DOMAIN monitors :
          monitors[k].device_name \in Devs(result.applied)

\* C11: a detached device that must be re-enabled and reports no display
\* mode is recorded failed and the success flag is false.
C11_NoModesIsFailure ==
    pc = "done" =>
        \A k \in DOMAIN monitors :
            ( /\ monitors[k].enabled
              /\ monitors[k].device_name \in all_devices
              /\ monitors[k].device_name \notin connected
              /\ osModes[monitors[k].device_name] = << >> )
            => /\ monitors[k].device_name \in Devs(result.failed)
               /\ ~result.success

----------------------------------------------------------------------------
\* Properties of the mode matcher

\* the call has returned
Returned == matched # Pending

\* mode m has the target's resolution as stored
IsExactMatch(m) == m.w = target.width /\ m.h = target.height

\* the target is searched with width and height exchanged
IsSwappedTarget == target.is_rotated \/ target.height > target.width

\* mode m has the target's resolution with width and height exchanged
IsSwappedMatch(m) == m.w = target.height /\ m.h = target.width

\* mode m is an exact or a native match of the target
IsMatch(m) ==
    \/ IsExactMatch(m)
    \/ IF IsSwappedTarget THEN IsSwappedMatch(m) ELSE IsExactMatch(m)

\* the score of a matching mode
ScoreOf(m) ==
    LET off == IF m.r >= target.refresh THEN m.r - target.refresh
               ELSE target.refresh - m.r
    IN  (IF IsExactMatch(m) THEN 1000 ELSE 900)
        + (IF off = 0 THEN 100 ELSE IF off < 50 THEN 50 - off ELSE 0)

\* the positions of the matching modes in the enumeration
Matching == { k \in DOMAIN enum_modes : IsMatch(enum_modes[k]) }

\* the positions of the matching modes of maximal score
TopScored ==
    { k \in Matching :
        \A j \in Matching : ScoreOf(enum_modes[j]) <= ScoreOf(enum_modes[k]) }

Pixels(m) == m.w * m.h

\* C12: when some mode is an exact or native match, the mode returned is
\* the first one in enumeration order among the matching modes of maximal
\* score; an exact-resolution, exact-refresh mode wins over any other.
C12_BestScoreFirst ==
    (Returned /\ Matching # {}) =>
        /\ \E k \in TopScored :
              /\ \A j \in TopScored : k <= j
              /\ matched = enum_modes[k]
        /\ (\E k \in Matching : ScoreOf(enum_modes[k]) = 1100)
              => (IsExactMatch(matched) /\ matched.r = target.refresh)

\* two different matching modes share the maximal score, a lower-scored
\* match precedes them, and the earlier of the two was returned
C12_Witness ==
    /\ Returned
    /\ \E j, k \in TopScored :
          /\ j < k
          /\ enum_modes[j] # enum_modes[k]
          /\ matched = enum_modes[j]
          /\ \E l \in Matching : l < j /\ l \notin TopScored

\* C13: when no mode matches, the mode returned under fallback has the
\* greatest pixel count of the enumeration and, among those, the highest
\* refresh rate; nothing is returned for an empty enumeration or when
\* fallback is not permitted.
C13_Fallback ==
    (Returned /\ Matching = {}) =>
        IF target.fallback_to_any /\ enum_modes # << >>
        THEN /\ \E k \in DOMAIN enum_modes : matched = enum_modes[k]
             /\ \A j \in DOMAIN enum_modes :
                   \/ Pixels(enum_modes[j]) < Pixels(matched)
                   \/ /\ Pixels(enum_modes[j]) = Pixels(matched)
                      /\ enum_modes[j].r <= matched.r
        ELSE matched = Absent

\* no mode matches, two modes share the greatest pixel count, and the
\* later one, of higher refresh rate, was returned
C13_Witness ==
    /\ Returned
    /\ Matching = {}
    /\ target.fallback_to_any
    /\ \E j, k \in DOMAIN enum_modes :
          /\ j < k
          /\ Pixels(enum_modes[j]) = Pixels(enum_modes[k])
          /\ enum_modes[j].r < enum_modes[k].r
          /\ \A l \in DOMAIN enum_modes :
                Pixels(enum_modes[l]) <= Pixels(enum_modes[k])
          /\ matched = enum_modes[k]

\* C14: for a portrait or rotated target, a mode with the exchanged
\* resolution is a match: a mode is returned with or without fallback, it
\* is an exact or an exchanged-resolution mode, and it is the exchanged one
\* when the device has no mode of the stored resolution.
C14_RotatedNative ==
    ( /\ Returned
      /\ IsSwappedTarget
      /\ \E k \in DOMAIN enum_modes : IsSwappedMatch(enum_modes[k]) )
    => /\ matched # Absent
       /\ IsExactMatch(matched) \/ IsSwappedMatch(matched)
       /\ (\A k \in DOMAIN enum_modes : ~IsExactMatch(enum_modes[k]))
             => IsSwappedMatch(matched)

\* a portrait target flagged rotated, no fallback, a device with a larger
\* mode first: the landscape mode of exchanged resolution was returned
C14_Witness ==
    /\ Returned
    /\ target.is_rotated
    /\ target.height > target.width
    /\ ~target.fallback_to_any
    /\ Len(enum_modes) >= 2
    /\ Pixels(enum_modes[1]) > Pixels(matched)
    /\ matched # Absent
    /\ IsSwappedMatch(matched)

----------------------------------------------------------------------------
\* WindowRestorer: _move_window_to_primary

\* RECT, and WINDOWPLACEMENT.rcNormalPosition
RECT(left, top, right, bottom) ==
    [left |-> left, top |-> top, right |-> right, bottom |-> bottom]

\* the (x, y, width, height) tuple get_primary_monitor_rect returns
WorkArea(x, y, w, h) == [x |-> x, y |-> y, w |-> w, h |-> h]

\* lines 416-433: the rectangle _move_window_to_primary writes for window
\* hwnd whose normal position is rect
MoveToPrimary(hwnd, rect, primary) ==
    LET width == rect.right - rect.left
        height == rect.bottom - rect.top
        x0 == primary.x + 50 + (hwnd % 10) * 30
        y0 == primary.y + 50 + (hwnd % 10) * 30
        new_x == IF x0 + width > primary.x + primary.w
                 THEN primary.x + primary.w - width - 10
                 ELSE x0
        new_y == IF y0 + height > primary.y + primary.h
                 THEN primary.y + primary.h - height - 10
                 ELSE y0
    IN  RECT(new_x, new_y, new_x + width, new_y + height)

\* the handles, work areas and window rectangles the call is made with
MovedHandles == {0, 4, 9, 12}

WorkAreas ==
    { WorkArea(x, y, w, h) : x \in {0, 60}, y \in {0, 40},
                             w \in {300, 400}, h \in {200, 300} }

NormalPositions ==
    { RECT(l, 20, l + w, 20 + h) :
        l \in {-500, 500}, w \in {100, 295, 300, 500}, h \in {100, 195, 400} }

PlacementInputs ==
    /\ moved_hwnd \in MovedHandles
    /\ primary_rect \in WorkAreas
    /\ wp \in NormalPositions

PlacementInit ==
    /\ ReconcilerAtRest
    /\ MatcherIdle
    /\ DesktopIdle
    /\ StoreIdle
    /\ ProcessIdle
    /\ OrchestratorIdle
    /\ PlacementInputs
    /\ wp_written = Pending

\* the call runs: GetWindowPlacement succeeds and the new rectangle is
\* handed to SetWindowPlacement
MoveWindow ==
    /\ wp_written = Pending
    /\ wp_written' = MoveToPrimary(moved_hwnd, wp, primary_rect)
    /\ UNCHANGED << moved_hwnd, primary_rect, wp,
                    reconcilerVars, matcherVars, desktopVars, storeVars, processVars,
                    orchestratorVars >>

\* the call runs: GetWindowPlacement fails, the function returns False
MoveWindowUnreadable ==
    /\ wp_written = Pending
    /\ wp_written' = Absent
    /\ UNCHANGED << moved_hwnd, primary_rect, wp,
                    reconcilerVars, matcherVars, desktopVars, storeVars, processVars,
                    orchestratorVars >>

\* the window has moved as told; the next evacuation moves it again
MoveWindowAgain ==
    /\ wp_written \notin {Pending, Absent}
    /\ wp' = wp_written
    /\ wp_written' = Pending
    /\ UNCHANGED << moved_hwnd, primary_rect,
                    reconcilerVars, matcherVars, desktopVars, storeVars, processVars,
                    orchestratorVars >>

PlacementNext ==
    \/ MoveWindow
    \/ MoveWindowUnreadable
    \/ MoveWindowAgain

PlacementSpec == PlacementInit /\ [][PlacementNext]_vars

\* a rectangle was handed to SetWindowPlacement
Written == wp_written \notin {Pending, Absent}

\* rectangle r lies fully within work area a
WithinWorkArea(r, a) ==
    /\ a.x <= r.left
    /\ a.y <= r.top
    /\ r.right <= a.x + a.w
    /\ r.bottom <= a.y + a.h

\* C15: the rectangle written for an evacuated window lies fully within
\* the primary work area and has the window's width and height.
C15_ClampedToWorkArea ==
    Written =>
        /\ WithinWorkArea(wp_written, primary_rect)
        /\ wp_written.right - wp_written.left = wp.right - wp.left
        /\ wp_written.bottom - wp_written.top = wp.bottom - wp.top

\* The same for the windows that leave the 10-pixel margin of the clamp
\* free: at most width - 10 wide and height - 10 high.
C15_ClampedWhenMarginFits ==
    ( /\ Written
      /\ wp.right - wp.left <= primary_rect.w - 10
      /\ wp.bottom - wp.top <= primary_rect.h - 10 )
    => /\ WithinWorkArea(wp_written, primary_rect)
       /\ wp_written.right - wp_written.left = wp.right - wp.left
       /\ wp_written.bottom - wp_written.top = wp.bottom - wp.top

----------------------------------------------------------------------------
\* Desktop: monitors, windows, window_cache.json

SW_SHOWNORMAL == 1
SW_SHOWMINIMIZED == 2

\* the window handles in use, in the order EnumWindows yields them
HandleOrder == << 1, 2 >>
Hwnds == { HandleOrder[k] : k \in DOMAIN HandleOrder }

\* (title, process name) of the applications that own windows
Apps == { [title |-> "doc", process_name |-> "editor.exe"],
          [title |-> "doc", process_name |-> "viewer.exe"] }

\* rcMonitor of the monitors: the primary at the origin, one to its right
\* (at either of two resolutions) and one below it
PrimaryMonitor == RECT(0, 0, 200, 200)
SideMonitors == { RECT(200, 0, 400, 200), RECT(200, 0, 600, 200) }
LowerMonitor == RECT(0, 200, 200, 400)

DesktopLayouts ==
    { {PrimaryMonitor} \cup side \cup lower :
        side \in {{}} \cup { {s} : s \in SideMonitors },
        lower \in { {}, {LowerMonitor} } }

\* (position_x, position_y) of a monitor
Origin(r) == << r.left, r.top >>
Origins(rects) == { Origin(r) : r \in rects }

\* the monitors a profile has enabled, as (position, size) rectangles
Profiles == DesktopLayouts

\* a top-level window: what GetWindowText, the process query and
\* GetWindowPlacement report for it
Window(title, process_name, rect, showCmd) ==
    [title |-> title, process_name |-> process_name,
     rect |-> rect, showCmd |-> showCmd]

\* the windows applications open: an editor window on the side monitor
\* (near its left edge, or beyond x = 400, or minimized) and a viewer
\* window on the primary monitor
OpenableWindows ==
    { Window("doc", "editor.exe", RECT(220, 20, 260, 60), SW_SHOWNORMAL),
      Window("doc", "editor.exe", RECT(420, 20, 460, 60), SW_SHOWNORMAL),
      Window("doc", "editor.exe", RECT(220, 20, 260, 60), SW_SHOWMINIMIZED),
      Window("doc", "viewer.exe", RECT(20, 20, 60, 60), SW_SHOWNORMAL) }

\* user32.IsWindow(hwnd)
IsWindow(ws, hwnd) == hwnd \in Hwnds /\ ws[hwnd] # Absent

\* _enum_all_visible_hwnds
enum_all_visible_hwnds(ws) == SelectSeq(HandleOrder, LAMBDA h : ws[h] # Absent)

\* left <= cx < right and top <= cy < bottom
ContainsPoint(r, cx, cy) ==
    /\ r.left <= cx /\ cx < r.right
    /\ r.top <= cy /\ cy < r.bottom

\* _find_monitor_for_point
find_monitor_for_point(cx, cy, rects) ==
    LET hit == { r \in rects : ContainsPoint(r, cx, cy) }
    IN  IF hit # {} THEN Origin(CHOOSE r \in hit : TRUE) ELSE << 0, 0 >>

\* the monitor origin resolved for a window rectangle by its midpoint
MonitorOf(rect, rects) ==
    find_monitor_for_point((rect.left + rect.right) \div 2,
                           (rect.top + rect.bottom) \div 2, rects)

\* the WindowPosition get_window_positions builds for window w
WindowPosition(hwnd, w, rects) ==
    [hwnd |-> hwnd, title |-> w.title, process_name |-> w.process_name,
     x |-> w.rect.left, y |-> w.rect.top,
     width |-> w.rect.right - w.rect.left,
     height |-> w.rect.bottom - w.rect.top,
     state |-> w.showCmd,
     monitor_x |-> MonitorOf(w.rect, rects)[1],
     monitor_y |-> MonitorOf(w.rect, rects)[2]]

get_window_positions(ws, rects) ==
    LET hs == enum_all_visible_hwnds(ws)
    IN  [k \in DOMAIN hs |-> WindowPosition(hs[k], ws[hs[k]], rects)]

\* WindowPosition.to_dict and from_dict
to_dict(p) ==
    [hwnd |-> p.hwnd, title |-> p.title, process_name |-> p.process_name,
     x |-> p.x, y |-> p.y, width |-> p.width, height |-> p.height,
     state |-> p.state, monitor_x |-> p.monitor_x, monitor_y |-> p.monitor_y]

from_dict(data) ==
    [hwnd |-> data.hwnd, title |-> data.title,
     process_name |-> data.process_name,
     x |-> data.x, y |-> data.y, width |-> data.width, height |-> data.height,
     state |-> data.state, monitor_x |-> data.monitor_x,
     monitor_y |-> data.monitor_y]

\* the new snapshot is added to what the file holds
save_positions_cache_Append(file, positions) ==
    file \o [k \in DOMAIN positions |-> to_dict(positions[k])]

\* save_positions_cache: the file is opened with "w" and holds the list
save_positions_cache(file, positions) ==
    [k \in DOMAIN positions |-> to_dict(positions[k])]

load_positions_cache(file) == [k \in DOMAIN file |-> from_dict(file[k])]

\* get_primary_monitor_rect: the work area of the monitor at (0, 0)
get_primary_monitor_rect ==
    WorkArea(PrimaryMonitor.left, PrimaryMonitor.top,
             PrimaryMonitor.right - PrimaryMonitor.left,
             PrimaryMonitor.bottom - PrimaryMonitor.top)

\* move_windows_from_monitors: every window whose midpoint lies on one of
\* the given monitors is moved onto the primary work area
move_windows_from_monitors(ws, rects, monitor_positions) ==
    [h \in Hwnds |->
        IF ws[h] # Absent /\ MonitorOf(ws[h].rect, rects) \in monitor_positions
        THEN [ws[h] EXCEPT !.rect = MoveToPrimary(h, @, get_primary_monitor_rect)]
        ELSE ws[h]]

\* find_window_by_title_and_process: the first match in enumeration order,
\* 0 for None
find_window_by_title_and_process(ws, title, process_name) ==
    LET hs == SelectSeq(enum_all_visible_hwnds(ws),
                        LAMBDA h : /\ ws[h].title = title
                                   /\ ws[h].process_name = process_name)
    IN  IF hs = << >> THEN 0 ELSE hs[1]

\* build_window_lookup()[(title, process_name)], 0 when the key is missing:
\* a later window overwrites an earlier one with the same key
build_window_lookup(ws) ==
    [app \in Apps |->
        LET hs == SelectSeq(enum_all_visible_hwnds(ws),
                            LAMBDA h : /\ ws[h].title = app.title
                                       /\ ws[h].process_name = app.process_name)
        IN  IF hs = << >> THEN 0 ELSE hs[Len(hs)]]

\* lines 555-563: the window a saved position is written to, 0 for none
ResolveWindow(saved, ws, window_lookup) ==
    IF IsWindow(ws, saved.hwnd) THEN saved.hwnd
    ELSE IF window_lookup # Absent
         THEN window_lookup[[title |-> saved.title,
                             process_name |-> saved.process_name]]
         ELSE find_window_by_title_and_process(ws, saved.title,
                                               saved.process_name)

\* lines 565-571: the saved monitor origin is among the present ones
MonitorAvailable(saved, available_monitors) ==
    << saved.monitor_x, saved.monitor_y >> \in available_monitors

\* restore_window_position: the windows after the call, the handle it
\* resolved and the value it returned
restore_window_position(saved, ws, available_monitors, window_lookup) ==
    LET hwnd == ResolveWindow(saved, ws, window_lookup)
    IN  IF hwnd = 0
        THEN [windows |-> ws, hwnd |-> 0, ok |-> FALSE]
        ELSE IF ~MonitorAvailable(saved, available_monitors)
        THEN [windows |-> ws, hwnd |-> hwnd, ok |-> FALSE]
        ELSE [windows |->
                [ws EXCEPT ![hwnd].showCmd = saved.state,
                           ![hwnd].rect = RECT(saved.x, saved.y,
                                               saved.x + saved.width,
                                               saved.y + saved.height)],
              hwnd |-> hwnd, ok |-> TRUE]

\* one record of restore_log
Restored(saved, r) == [saved |-> saved, hwnd |-> r.hwnd, ok |-> r.ok]

\* apply_profile lines 174-176, from index k of the cached list on
RECURSIVE RestoreNewlyEnabled(_, _, _, _, _)
RestoreNewlyEnabled(cached, k, st, newly_enabled, available_monitors) ==
    IF k > Len(cached) THEN st
    ELSE LET pos == cached[k]
             r == restore_window_position(pos, st.windows,
                                          available_monitors, Absent)
         IN  RestoreNewlyEnabled(cached, k + 1,
                 IF << pos.monitor_x, pos.monitor_y >> \in newly_enabled
                 THEN [windows |-> r.windows,
                       log |-> Append(st.log, Restored(pos, r))]
                 ELSE st,
                 newly_enabled, available_monitors)

\* restore_window_positions lines 606-610, from index k on
RECURSIVE RestoreEach(_, _, _, _, _, _)
RestoreEach(saved_positions, k, st, skip_minimized, available_monitors, wl) ==
    IF k > Len(saved_positions) THEN st
    ELSE LET saved == saved_positions[k]
             r == restore_window_position(saved, st.windows,
                                          available_monitors, wl)
         IN  RestoreEach(saved_positions, k + 1,
                 IF skip_minimized /\ saved.state = SW_SHOWMINIMIZED
                 THEN st
                 ELSE [windows |-> r.windows,
                       log |-> Append(st.log, Restored(saved, r))],
                 skip_minimized, available_monitors, wl)

----------------------------------------------------------------------------
\* ProfileManager.apply_profile and the batch restore

\* the monitor origins a profile can take away or bring back
SecondaryOrigins == Origins(SideMonitors \cup {LowerMonitor})

\* longest run of window-manager operations
MaxOperations == 2

\* The monitors present after apply_monitor_settings: the profile's when
\* the staged changes took effect, else the ones present before
Reconciled(current, profile, took) == IF took THEN profile ELSE current

\* the windows whose midpoint lies on the monitor at origin o
WindowsOn(ws, rects, o) ==
    { [hwnd |-> h, title |-> ws[h].title, process_name |-> ws[h].process_name,
       rect |-> ws[h].rect, showCmd |-> ws[h].showCmd] :
        h \in { g \in Hwnds : ws[g] # Absent /\ MonitorOf(ws[g].rect, rects) = o } }

\* apply_profile(name) for a stored profile whose enabled monitors are
\* `profile`, with manage_windows left at its default True as every caller
\* does; apply_monitor_settings returns result.success = success and leaves
\* the monitors Reconciled(...)
apply_profile(profile, took, success) ==
    LET manage_windows == TRUE
        current_monitor_positions == Origins(monitor_rects)
        profile_monitor_positions == Origins(profile)
        monitors_to_disable ==
            current_monitor_positions \ profile_monitor_positions
        evacuates == manage_windows /\ monitors_to_disable # {}
        saved_positions == get_window_positions(windows, monitor_rects)
        cache1 == IF evacuates
                  THEN save_positions_cache(cache_file, saved_positions)
                  ELSE cache_file
        windows1 == IF evacuates
                    THEN move_windows_from_monitors(windows, monitor_rects,
                                                    monitors_to_disable)
                    ELSE windows
        new_rects == Reconciled(monitor_rects, profile, took)
        new_monitor_positions == Origins(new_rects)
        newly_enabled == new_monitor_positions \ current_monitor_positions
        restores == manage_windows /\ success /\ newly_enabled # {}
        st == IF restores
              THEN RestoreNewlyEnabled(load_positions_cache(cache1), 1,
                                       [windows |-> windows1, log |-> << >>],
                                       newly_enabled, new_monitor_positions)
              ELSE [windows |-> windows1, log |-> << >>]
    IN  /\ monitor_rects' = new_rects
        /\ cache_file' = cache1
        /\ windows' = st.windows
        /\ restore_log' = st.log
        /\ last_op' = [op |-> "apply_profile", success |-> success,
                       evacuated |-> evacuates,
                       overwrote |-> /\ evacuates
                                     /\ cache_file # << >>
                                     /\ cache1 # cache_file]
        /\ removed' =
              [o \in SecondaryOrigins |->
                 IF o \in new_monitor_positions THEN {}
                 ELSE IF evacuates /\ o \in monitors_to_disable
                      THEN WindowsOn(windows, monitor_rects, o)
                      ELSE removed[o]]

ApplyProfile ==
    /\ operations < MaxOperations
    /\ operations' = operations + 1
    /\ \E profile \in Profiles, took \in BOOLEAN, success \in BOOLEAN :
          apply_profile(profile, took, success)
    /\ UNCHANGED << reconcilerVars, matcherVars, placementVars, storeVars, processVars,
                    orchestratorVars >>

\* restore_window_positions(load_positions_cache(), skip_minimized)
RestoreAll ==
    /\ operations < MaxOperations
    /\ operations' = operations + 1
    /\ \E skip_minimized \in BOOLEAN :
          LET st == RestoreEach(load_positions_cache(cache_file), 1,
                                [windows |-> windows, log |-> << >>],
                                skip_minimized, Origins(monitor_rects),
                                build_window_lookup(windows))
          IN  /\ windows' = st.windows
              /\ restore_log' = st.log
              /\ last_op' = [op |-> "restore_window_positions",
                             skip_minimized |-> skip_minimized]
    /\ UNCHANGED << monitor_rects, cache_file, removed,
                    reconcilerVars, matcherVars, placementVars, storeVars, processVars,
                    orchestratorVars >>

\* what happens outside an operation of the window manager
Elsewhere == [op |-> "none"]

\* the user closes a window: its handle becomes invalid
CloseWindow ==
    /\ \E h \in Hwnds :
          /\ windows[h] # Absent
          /\ windows' = [windows EXCEPT ![h] = Absent]
    /\ last_op' = Elsewhere
    /\ restore_log' = << >>
    /\ UNCHANGED << monitor_rects, cache_file, removed, operations,
                    reconcilerVars, matcherVars, placementVars, storeVars, processVars,
                    orchestratorVars >>

\* an application opens a window on a present monitor; the OS may hand out
\* a handle that was in use before
OpenWindow ==
    /\ \E h \in Hwnds,
          w \in { o \in OpenableWindows :
                    \E m \in monitor_rects :
                        ContainsPoint(m, (o.rect.left + o.rect.right) \div 2,
                                         (o.rect.top + o.rect.bottom) \div 2) } :
          /\ windows[h] = Absent
          /\ windows' = [windows EXCEPT ![h] = w]
    /\ last_op' = Elsewhere
    /\ restore_log' = << >>
    /\ UNCHANGED << monitor_rects, cache_file, removed, operations,
                    reconcilerVars, matcherVars, placementVars, storeVars, processVars,
                    orchestratorVars >>

DesktopInit ==
    /\ ReconcilerAtRest
    /\ MatcherIdle
    /\ PlacementIdle
    /\ StoreIdle
    /\ ProcessIdle
    /\ OrchestratorIdle
    /\ monitor_rects \in DesktopLayouts
    /\ windows = [h \in Hwnds |-> Absent]
    /\ cache_file = << >>
    /\ operations = 0
    /\ last_op = Elsewhere
    /\ restore_log = << >>
    /\ removed = [o \in SecondaryOrigins |-> {}]

DesktopNext ==
    \/ ApplyProfile
    \/ RestoreAll
    \/ CloseWindow
    \/ OpenWindow

DesktopSpec == DesktopInit /\ [][DesktopNext]_vars

----------------------------------------------------------------------------
\* Properties of the window manager

\* the rectangle a saved position describes
SavedRect(saved) ==
    RECT(saved.x, saved.y, saved.x + saved.width, saved.y + saved.height)

\* rectangles r and m share some area
Overlaps(r, m) ==
    /\ r.left < m.right /\ m.left < r.right
    /\ r.top < m.bottom /\ m.top < r.bottom

\* the calls of the last operation that wrote a placement
Writes == { k \in DOMAIN restore_log : restore_log[k].ok }

\* the step is an apply_profile, or a batch restore
IsApplyStep == operations' = operations + 1 /\ last_op'.op = "apply_profile"
IsRestoreStep ==
    operations' = operations + 1 /\ last_op'.op = "restore_window_positions"

\* C16: a saved position whose monitor origin is not present is skipped
\* without a write, and no restore writes a rectangle that lies outside
\* every present monitor.
C16_NeverOffScreen ==
    /\ \A k \in DOMAIN restore_log :
          MonitorAvailable(restore_log[k].saved, Origins(monitor_rects))
              \/ ~restore_log[k].ok
    /\ \A k \in Writes :
          \E m \in monitor_rects : Overlaps(SavedRect(restore_log[k].saved), m)

\* The first half alone: a restore call writes only when the saved monitor
\* origin is present, and a batch restore whose calls all return False
\* leaves every window as it was.
C16_SkipsAbsentOrigin ==
    /\ [](\A k \in DOMAIN restore_log :
            MonitorAvailable(restore_log[k].saved, Origins(monitor_rects))
                \/ ~restore_log[k].ok)
    /\ [][ (IsRestoreStep /\ \A k \in DOMAIN restore_log' : ~restore_log'[k].ok)
             => windows' = windows ]_vars

\* C17: neither the batch restore (skip_minimized set, its default) nor the
\* restore step of apply_profile writes the placement of a window whose
\* saved show-state is minimized.
C17_MinimizedNotRestored ==
    ( \/ last_op.op = "apply_profile"
      \/ last_op.op = "restore_window_positions" /\ last_op.skip_minimized )
    => \A k \in Writes : restore_log[k].saved.state # SW_SHOWMINIMIZED

\* The batch restore with skip_minimized set, alone
C17_BatchSkipsMinimized ==
    (last_op.op = "restore_window_positions" /\ last_op.skip_minimized) =>
        \A k \in DOMAIN restore_log :
            restore_log[k].saved.state # SW_SHOWMINIMIZED

\* C18: a saved placement is written only to a window whose title and
\* process name are the saved ones.
C18_IdentityRevalidated ==
    \A k \in Writes :
        LET saved == restore_log[k].saved
            w == windows[restore_log[k].hwnd]
        IN  w.title = saved.title /\ w.process_name = saved.process_name

\* The fallback alone: when the saved handle is invalid, the window
\* written to has the saved title and process name.
C18_FallbackMatches ==
    [][ \A k \in DOMAIN restore_log' :
          ( /\ restore_log'[k].ok
            /\ restore_log' # restore_log
            /\ ~IsWindow(windows, restore_log'[k].saved.hwnd) )
          => LET saved == restore_log'[k].saved
                 w == windows[restore_log'[k].hwnd]
             IN  w.title = saved.title /\ w.process_name = saved.process_name
      ]_vars

\* C19: a successful apply_profile that brings a monitor back at its origin
\* returns every window evacuated from it, which was not minimized and
\* still exists, to its original rectangle; and no restore writes a
\* position saved on a monitor whose origin is not present.
C19_RoundTrip ==
    [][ /\ (IsApplyStep /\ last_op'.success) =>
              \A o \in Origins(monitor_rects') \ Origins(monitor_rects) :
                  \A w \in removed[o] :
                      ( /\ w.showCmd # SW_SHOWMINIMIZED
                        /\ windows[w.hwnd] # Absent
                        /\ windows[w.hwnd].title = w.title
                        /\ windows[w.hwnd].process_name = w.process_name )
                      => windows'[w.hwnd].rect = w.rect
        /\ (IsApplyStep \/ IsRestoreStep) =>
              \A k \in DOMAIN restore_log' :
                  restore_log'[k].ok =>
                      MonitorAvailable(restore_log'[k].saved,
                                       Origins(monitor_rects'))
      ]_vars

----------------------------------------------------------------------------
\* Further properties of the reconciler

\* the devices no desired spec of the running pass names
Unnamed == DeviceNames \ profile_device_names

\* the extra-disable pass visits d: connected, unnamed and not primary
DueForExtraDisable(d) ==
    /\ disable_extra
    /\ d \in connected
    /\ d \in Unnamed
    /\ d \notin primary_devices

\* the extra-disable pass is over
ExtraPassDone == pc \in {"configure", "commit", "done"}

\* the accepted detach calls made for device d
AcceptedDetach(d) ==
    { k \in CallsFor(d) : calls[k].op = "detach" /\ calls[k].ok }

\* C24: with disable_extra set, disable_monitor is called once for every
\* connected, unnamed, non-primary device, a detach is staged for it when
\* the OS accepts the call, and nothing is staged or called for any other
\* unnamed device; with the flag off nothing is staged or called for any
\* unnamed device.
C24_ExtraDisable ==
    pc # "idle" =>
        \A d \in Unnamed :
            /\ CallsFor(d) # {} => DueForExtraDisable(d)
            /\ \A k \in CallsFor(d) : calls[k].op \in {"detach", "current"}
            /\ Cardinality(CallsFor(d)) <= 1
            /\ (ExtraPassDone /\ DueForExtraDisable(d)) => CallsFor(d) # {}
            /\ pc \in {"extra", "configure", "commit"} =>
                  /\ osPending[d] # Absent <=> AcceptedDetach(d) # {}
                  /\ osPending[d] # Absent => IsDetach(osPending[d].mode)

\* C24 witness: the extra-disable pass has staged a detach for an unnamed
\* device and has left the unnamed primary alone
C24_Witness ==
    /\ pc = "configure"
    /\ disable_extra
    /\ \E d \in Unnamed : osPending[d] # Absent /\ IsDetach(osPending[d].mode)
    /\ \E d \in Unnamed \cap connected :
          d \in primary_devices /\ CallsFor(d) = {} /\ osPending[d] = Absent

\* C27: after a pass with disable_extra off, every unnamed device is
\* attached exactly if it was before the pass, with the mode it had.
C27_UnnamedUntouched ==
    (pc = "done" /\ ~disable_extra) =>
        \A d \in Unnamed :
            /\ d \in osConnected <=> d \in before.connected
            /\ osMode[d] = before.mode[d]

\* the pass has run detect_displays
Detected == \E k \in DOMAIN calls : calls[k].op = "detect"

\* The frame property for the passes that do not run detect_displays
C27_UntouchedWithoutDetect ==
    (pc = "done" /\ ~disable_extra /\ ~Detected) =>
        \A d \in Unnamed :
            /\ d \in osConnected <=> d \in before.connected
            /\ osMode[d] = before.mode[d]

\* C28: a commit is issued only after some stage call of the pass was
\* accepted.
C28_CommitOnlyWhenStaged ==
    \A c \in CommitCalls :
        \E k \in 1..(c - 1) : calls[k].op \in StageOps /\ calls[k].ok

\* The converse: a pass at its return in which a stage call was accepted
\* has issued the commit
C28_StagedIsCommitted ==
    (pc = "done" /\ \E k \in DOMAIN calls : calls[k].op \in StageOps /\ calls[k].ok)
        => CommitCalls # {}

----------------------------------------------------------------------------
\* Further properties of the mode matcher

\* C29: when some enumerated mode has exactly the target width and height,
\* the mode returned has exactly the target width and height.
C29_ExactBeforeNative ==
    (Returned /\ \E k \in DOMAIN enum_modes : IsExactMatch(enum_modes[k]))
        => matched # Absent /\ IsExactMatch(matched)

\* The precedence when the exact mode's refresh rate is within 50 of the
\* target's
C29_ExactBeforeNativeNearRefresh ==
    (Returned /\ \E k \in DOMAIN enum_modes :
                    /\ IsExactMatch(enum_modes[k])
                    /\ enum_modes[k].r - target.refresh < 50
                    /\ target.refresh - enum_modes[k].r < 50)
        => matched # Absent /\ IsExactMatch(matched)

----------------------------------------------------------------------------
\* Persisted files: profiles.json, window_cache.json and the records in them

\* A Python evaluation either gives a value or raises an exception
Value(v) == [value |-> v]
Raise(e) == [raises |-> e]
Raises(r) == "raises" \in DOMAIN r

\* a file whose text is not JSON, and a JSON text whose top level is a list
NotJson == [not_json |-> TRUE]
JsonList == [json_list |-> TRUE]

\* json.load(f)
json_load(content) ==
    IF content = NotJson THEN Raise("JSONDecodeError") ELSE Value(content)

\* data.get(key, default) on what json.load returned
dict_get(data, key, default) ==
    IF data = JsonList THEN Raise("AttributeError")
    ELSE IF key \in DOMAIN data THEN Value(data[key]) ELSE Value(default)

\* the empty list, and the empty dict; a dict is the sequence of its items
\* [key, data] in insertion order
EmptyList == << >>
EmptyDict == << >>

\* the first exception a list of evaluations raises, else the list of values
Collect(rs) ==
    IF \E k \in DOMAIN rs : Raises(rs[k])
    THEN rs[CHOOSE k \in DOMAIN rs :
                Raises(rs[k]) /\ \A j \in 1..(k - 1) : ~Raises(rs[j])]
    ELSE Value([k \in DOMAIN rs |-> rs[k].value])

\* the fields of the dataclass MonitorInfo
MonitorInfoFields ==
    {"device_name", "device_string", "width", "height", "position_x",
     "position_y", "refresh_rate", "orientation", "bits_per_pixel",
     "is_primary", "is_active", "enabled"}

\* MonitorInfo.to_dict
MonitorInfo_to_dict(m) ==
    [device_name |-> m.device_name, device_string |-> m.device_string,
     width |-> m.width, height |-> m.height,
     position_x |-> m.position_x, position_y |-> m.position_y,
     refresh_rate |-> m.refresh_rate, orientation |-> m.orientation,
     bits_per_pixel |-> m.bits_per_pixel, is_primary |-> m.is_primary,
     is_active |-> m.is_active, enabled |-> m.enabled]

\* cls(**data) of a dataclass with the fields `fields`, of which those in
\* `defaulted` have a default value: a missing or an unexpected keyword
\* argument raises TypeError; the values are taken as they are
dataclass_init(data, fields, defaulted) ==
    IF DOMAIN data \subseteq fields /\ (fields \ defaulted) \subseteq DOMAIN data
    THEN Value(data)
    ELSE Raise("TypeError")

\* every loaded record is enabled
MonitorInfo_from_dict_AlwaysEnabled(data) ==
    LET data1 == [enabled |-> TRUE] @@ data
    IN  dataclass_init(data1, MonitorInfoFields, {"enabled"})

\* MonitorInfo.from_dict
MonitorInfo_from_dict(data) ==
    LET data1 == IF "enabled" \notin DOMAIN data
                 THEN data @@ [enabled |-> TRUE]
                 ELSE data
    IN  dataclass_init(data1, MonitorInfoFields, {"enabled"})

\* Profile.from_dict: data["name"], data["monitors"], then the monitors
Profile_from_dict(data) ==
    IF "name" \notin DOMAIN data THEN Raise("KeyError")
    ELSE IF "monitors" \notin DOMAIN data THEN Raise("KeyError")
    ELSE LET ms == Collect([k \in DOMAIN data.monitors |->
                               MonitorInfo_from_dict(data.monitors[k])])
         IN  IF Raises(ms) THEN ms
             ELSE Value([name |-> data.name, monitors |-> ms.value])

\* the exceptions load_profiles catches
CaughtByLoadProfiles == {"JSONDecodeError", "KeyError"}

\* ProfileManager.load_profiles on a manager whose profiles are `current`:
\* the profiles afterwards and the exception that leaves the method
load_profiles(content, current) ==
    IF content = Absent THEN [profiles |-> current, raised |-> Absent]
    ELSE LET data == json_load(content)
             entries == IF Raises(data) THEN data
                        ELSE dict_get(data.value, "profiles", EmptyDict)
             loaded == IF Raises(entries) THEN entries
                       ELSE Collect([k \in DOMAIN entries.value |->
                                        Profile_from_dict(entries.value[k].data)])
         IN  IF ~Raises(loaded)
             THEN [profiles |-> [k \in DOMAIN loaded.value |->
                                   [key |-> entries.value[k].key,
                                    data |-> loaded.value[k]]],
                   raised |-> Absent]
             ELSE IF loaded.raises \in CaughtByLoadProfiles
                  THEN [profiles |-> EmptyDict, raised |-> Absent]
                  ELSE [profiles |-> current, raised |-> Raise(loaded.raises)]

\* the fields of the dataclass WindowPosition
WindowPositionFields ==
    {"hwnd", "title", "process_name", "x", "y", "width", "height", "state",
     "monitor_x", "monitor_y"}

\* load_positions_cache on a file of any content: every exception is caught
load_cache_file(content) ==
    IF content = Absent THEN EmptyList
    ELSE LET data == json_load(content)
             entries == IF Raises(data) THEN data
                        ELSE dict_get(data.value, "positions", EmptyList)
             loaded == IF Raises(entries) THEN entries
                       ELSE Collect([k \in DOMAIN entries.value |->
                                dataclass_init(entries.value[k],
                                               WindowPositionFields, {})])
         IN  IF Raises(loaded) THEN EmptyList ELSE loaded.value

\* the dict the caller passed to MonitorInfo.from_dict, after the call:
\* {**data, "enabled": True} builds a new dict and rebinds the local name
ArgumentAfterFromDict(data) == data

\* ---- the files and records the loaders are run on -------------------------

MonitorInfos ==
    [device_name : {"D1"}, device_string : {"Generic PnP Monitor"},
     width : {1, 2}, height : {1}, position_x : {0, 2}, position_y : {0},
     refresh_rate : {60}, orientation : {0}, bits_per_pixel : {32},
     is_primary : BOOLEAN, is_active : {TRUE}, enabled : BOOLEAN]

\* record r without the key `key`, and with one more key
WithoutKey(r, key) == [f \in DOMAIN r \ {key} |-> r[f]]
WithKey(r, key, v) == [f \in {key} |-> v] @@ r

SavedMonitor == MonitorInfo_to_dict(CHOOSE m \in MonitorInfos : ~m.enabled)

\* the monitor records found in a profiles.json: as written by to_dict,
\* written before `enabled` existed, lacking a field, with an unknown field,
\* with a misspelt field
MonitorRecords ==
    { SavedMonitor,
      WithoutKey(SavedMonitor, "enabled"),
      WithoutKey(SavedMonitor, "width"),
      WithKey(SavedMonitor, "scale", 1),
      WithKey(WithoutKey(SavedMonitor, "height"), "heigth", 1) }

MaxRecords == 2

RecordLists(S) == UNION { [1..n -> S] : n \in 0..MaxRecords }

\* the profile records found in a profiles.json
ProfileRecords ==
    { [name |-> "desk", monitors |-> ms, created_at |-> "t"] :
        ms \in RecordLists(MonitorRecords) }
    \cup { [name |-> "desk", monitors |-> << SavedMonitor >>],
           [monitors |-> << SavedMonitor >>, created_at |-> "t"],
           [name |-> "desk", created_at |-> "t"] }

\* the contents of profiles.json: no file, not JSON, a JSON list, an object
\* without "profiles", an object with one profile
ProfilesFiles ==
    { Absent, NotJson, JsonList, [version |-> 1] }
    \cup { [profiles |-> << [key |-> "desk", data |-> pr] >>] :
             pr \in ProfileRecords }

SavedPosition ==
    [hwnd |-> 1, title |-> "doc", process_name |-> "editor.exe",
     x |-> 220, y |-> 20, width |-> 40, height |-> 40,
     state |-> SW_SHOWNORMAL, monitor_x |-> 200, monitor_y |-> 0]

PositionRecords ==
    { SavedPosition,
      WithoutKey(SavedPosition, "state"),
      WithKey(SavedPosition, "z_order", 1) }

\* the contents of window_cache.json
CacheFiles ==
    { Absent, NotJson, JsonList, [version |-> 1] }
    \cup { [positions |-> ps] : ps \in RecordLists(PositionRecords) }

\* ---- the operations --------------------------------------------------------

StoreInit ==
    /\ ReconcilerAtRest
    /\ MatcherIdle
    /\ PlacementIdle
    /\ DesktopIdle
    /\ ProcessIdle
    /\ OrchestratorIdle
    /\ profiles_json \in ProfilesFiles
    /\ window_cache_json \in CacheFiles
    /\ info \in MonitorInfos
    /\ profiles = Pending
    /\ loaded_positions = Pending
    /\ info_dict = Pending
    /\ info_loaded = Pending
    /\ raised = Absent

\* ProfileManager(): self.profiles = {}, then self.load_profiles()
LoadProfiles ==
    /\ profiles = Pending
    /\ LET r == load_profiles(profiles_json, EmptyDict)
       IN  /\ profiles' = Value(r.profiles)
           /\ raised' = r.raised
    /\ UNCHANGED << profiles_json, window_cache_json, loaded_positions,
                    info, info_dict, info_loaded,
                    reconcilerVars, matcherVars, placementVars, desktopVars,
                    processVars, orchestratorVars >>

\* window_manager.load_positions_cache()
LoadPositionsCache ==
    /\ loaded_positions = Pending
    /\ loaded_positions' = Value(load_cache_file(window_cache_json))
    /\ UNCHANGED << profiles_json, window_cache_json, profiles, raised,
                    info, info_dict, info_loaded,
                    reconcilerVars, matcherVars, placementVars, desktopVars,
                    processVars, orchestratorVars >>

\* the profile is saved: m.to_dict()
SaveMonitor ==
    /\ info_dict = Pending
    /\ info_dict' = MonitorInfo_to_dict(info)
    /\ UNCHANGED << profiles_json, window_cache_json, profiles, raised,
                    loaded_positions, info, info_loaded,
                    reconcilerVars, matcherVars, placementVars, desktopVars,
                    processVars, orchestratorVars >>

\* the profile was saved by a version that had no `enabled` field
SaveMonitorOldFormat ==
    /\ info_dict = Pending
    /\ info_dict' = WithoutKey(MonitorInfo_to_dict(info), "enabled")
    /\ UNCHANGED << profiles_json, window_cache_json, profiles, raised,
                    loaded_positions, info, info_loaded,
                    reconcilerVars, matcherVars, placementVars, desktopVars,
                    processVars, orchestratorVars >>

\* MonitorInfo.from_dict(record)
LoadMonitor ==
    /\ info_dict # Pending
    /\ info_loaded = Pending
    /\ info_loaded' = MonitorInfo_from_dict(info_dict)
    /\ info_dict' = ArgumentAfterFromDict(info_dict)
    /\ UNCHANGED << profiles_json, window_cache_json, profiles, raised,
                    loaded_positions, info,
                    reconcilerVars, matcherVars, placementVars, desktopVars,
                    processVars, orchestratorVars >>

StoreNext ==
    \/ LoadProfiles
    \/ LoadPositionsCache
    \/ SaveMonitor
    \/ SaveMonitorOldFormat
    \/ LoadMonitor

StoreSpec == StoreInit /\ [][StoreNext]_vars

----------------------------------------------------------------------------
\* Properties of the persisted files

\* record r has exactly the fields `fields`
HasExactly(r, fields) == DOMAIN r = fields

\* the content of profiles.json is what save_profiles writes, or what an
\* older version wrote
WellFormedProfiles(content) ==
    /\ content \notin {NotJson, JsonList}
    /\ "profiles" \in DOMAIN content
    /\ \A k \in DOMAIN content.profiles :
          LET pr == content.profiles[k].data
          IN  /\ {"name", "monitors"} \subseteq DOMAIN pr
              /\ \A j \in DOMAIN pr.monitors :
                    \/ HasExactly(pr.monitors[j], MonitorInfoFields)
                    \/ HasExactly(pr.monitors[j], MonitorInfoFields \ {"enabled"})

WellFormedCache(content) ==
    /\ content \notin {NotJson, JsonList}
    /\ "positions" \in DOMAIN content
    /\ \A k \in DOMAIN content.positions :
          HasExactly(content.positions[k], WindowPositionFields)

\* C22: loading a file that exists and is malformed raises nothing and
\* gives an empty collection, for profiles.json and for window_cache.json.
C22_CorruptLoadsEmpty ==
    /\ profiles # Pending =>
          /\ raised = Absent
          /\ ((profiles_json # Absent /\ ~WellFormedProfiles(profiles_json))
                => profiles = Value(EmptyDict))
    /\ ( /\ loaded_positions # Pending
         /\ window_cache_json # Absent
         /\ ~WellFormedCache(window_cache_json) )
       => loaded_positions = Value(EmptyList)

\* The same for window_cache.json alone
C22_CorruptCacheLoadsEmpty ==
    ( /\ loaded_positions # Pending
      /\ window_cache_json # Absent
      /\ ~WellFormedCache(window_cache_json) )
    => loaded_positions = Value(EmptyList)

\* The same for a profiles.json that is not JSON, or whose profile lacks
\* the "name" or the "monitors" key
C22_CaughtKindsLoadEmpty ==
    ( /\ profiles # Pending
      /\ \/ profiles_json = NotJson
         \/ /\ profiles_json \notin {Absent, NotJson, JsonList}
            /\ "profiles" \in DOMAIN profiles_json
            /\ \E k \in DOMAIN profiles_json.profiles :
                  ~ ({"name", "monitors"}
                         \subseteq DOMAIN profiles_json.profiles[k].data) )
    => raised = Absent /\ profiles = Value(EmptyDict)

\* C23: a MonitorInfo saved with to_dict and loaded with from_dict is equal
\* to the original in every field; a record without `enabled` loads with
\* enabled = True and its other fields as they are, and the record passed
\* in is not changed.
C23_RoundTrip ==
    /\ [](info_loaded # Pending =>
            /\ ~Raises(info_loaded)
            /\ (info_dict = MonitorInfo_to_dict(info) => info_loaded.value = info)
            /\ ("enabled" \notin DOMAIN info_dict =>
                  /\ info_loaded.value.enabled = TRUE
                  /\ \A f \in DOMAIN info_dict :
                        info_loaded.value[f] = info_dict[f]
                  /\ DOMAIN info_loaded.value = MonitorInfoFields))
    /\ [][info_dict # Pending => info_dict' = info_dict]_vars

\* C23 witness: a disabled monitor was saved with to_dict and loaded
C23_Witness ==
    /\ info_loaded # Pending
    /\ ~info.enabled
    /\ info_dict = MonitorInfo_to_dict(info)
----------------------------------------------------------------------------
\* Process names and the process-id cache of window_manager

Pids == {1, 2}

\* the image names QueryFullProcessImageNameW gives; "" when the process
\* cannot be opened
ImageNames == {"editor.exe", "viewer.exe", ""}

\* dict item assignment: cache[pid] = name
CachePut(cache, pid, name) ==
    [p \in DOMAIN cache \cup {pid} |-> IF p = pid THEN name ELSE cache[p]]

\* _get_process_name_by_pid(pid) with the cache `cache`: the name returned
\* and the cache afterwards
get_process_name_by_pid(cache, images, pid) ==
    IF pid \in DOMAIN cache
    THEN [name |-> cache[pid], cache |-> cache]
    ELSE [name |-> images[pid], cache |-> CachePut(cache, pid, images[pid])]

\* one name resolved, as recorded in the history
Resolved(pid, name) == [pid |-> pid, name |-> name]

\* the loop "for hwnd in _enum_all_visible_hwnds()" of an enumeration that
\* resolves the process name of every window
RECURSIVE ResolveEach(_, _, _, _, _)
ResolveEach(hwnds, k, st, images, pids) ==
    IF k > Len(hwnds) THEN st
    ELSE LET r == get_process_name_by_pid(st.cache, images, pids[hwnds[k]])
         IN  ResolveEach(hwnds, k + 1,
                         [cache |-> r.cache,
                          resolved |-> Append(st.resolved,
                                              Resolved(pids[hwnds[k]], r.name))],
                         images, pids)

\* the loop of find_window_by_title_and_process: it stops at the first
\* window whose process name is the one looked for
RECURSIVE FindEach(_, _, _, _, _, _)
FindEach(hwnds, k, st, images, pids, process_name) ==
    IF k > Len(hwnds) THEN st
    ELSE LET r == get_process_name_by_pid(st.cache, images, pids[hwnds[k]])
             st1 == [cache |-> r.cache,
                     resolved |-> Append(st.resolved,
                                         Resolved(pids[hwnds[k]], r.name))]
         IN  IF r.name = process_name THEN st1
             ELSE FindEach(hwnds, k + 1, st1, images, pids, process_name)

\* "global _pid_cache; _pid_cache = {}"
FreshCache == << >>

\* the cache is left as it is
KeptCache(cache) == cache

\* an enumeration that starts with a fresh cache and resolves the process
\* name of every window
Enumerate ==
    /\ LET st == ResolveEach(HandleOrder, 1,
                             [cache |-> FreshCache, resolved |-> << >>],
                             process_image, window_pid)
       IN  /\ pid_cache' = st.cache
           /\ resolved' = st.resolved
    /\ UNCHANGED << process_image, window_pid, reconcilerVars, matcherVars,
                    placementVars, desktopVars, storeVars,
                    orchestratorVars >>

ProcessInit ==
    /\ ReconcilerAtRest
    /\ MatcherIdle
    /\ PlacementIdle
    /\ DesktopIdle
    /\ StoreIdle
    /\ OrchestratorIdle
    /\ pid_cache = << >>
    /\ process_image \in [Pids -> ImageNames]
    /\ window_pid \in [Hwnds -> Pids]
    /\ resolved = << >>
    /\ enumeration = [op |-> "none"]

\* get_window_positions()
SnapshotNames ==
    /\ enumeration' = [op |-> "get_window_positions"]
    /\ Enumerate

\* get_all_windows()
ListWindowNames ==
    /\ enumeration' = [op |-> "get_all_windows"]
    /\ Enumerate

\* build_window_lookup()
LookupNames ==
    /\ enumeration' = [op |-> "build_window_lookup"]
    /\ Enumerate

\* find_window_by_title_and_process(title, process_name), every window
\* having the title looked for
FindWindowNames ==
    /\ \E process_name \in ImageNames :
          LET st == FindEach(HandleOrder, 1,
                             [cache |-> KeptCache(pid_cache), resolved |-> << >>],
                             process_image, window_pid, process_name)
          IN  /\ pid_cache' = st.cache
              /\ resolved' = st.resolved
    /\ enumeration' = [op |-> "find_window_by_title_and_process"]
    /\ UNCHANGED << process_image, window_pid, reconcilerVars, matcherVars,
                    placementVars, desktopVars, storeVars,
                    orchestratorVars >>

\* a process ends and its process id is given to another program, whose
\* window takes the place of the old one
PidReused ==
    /\ \E pid \in Pids, name \in ImageNames :
          /\ name # process_image[pid]
          /\ process_image' = [process_image EXCEPT ![pid] = name]
    /\ resolved' = << >>
    /\ enumeration' = [op |-> "none"]
    /\ UNCHANGED << pid_cache, window_pid, reconcilerVars, matcherVars,
                    placementVars, desktopVars, storeVars,
                    orchestratorVars >>

ProcessNext ==
    \/ SnapshotNames
    \/ ListWindowNames
    \/ LookupNames
    \/ FindWindowNames
    \/ PidReused

ProcessSpec == ProcessInit /\ [][ProcessNext]_vars

\* C26: every process name an operation resolves is the name of the process
\* that has the process id during that operation, never a name cached by
\* an earlier operation for a process that has since ended.
C26_NoStaleProcessName ==
    \A k \in DOMAIN resolved :
        resolved[k].name = process_image[resolved[k].pid]

\* The same for the three operations that reset the cache
C26_FreshAfterReset ==
    enumeration.op \in {"get_window_positions", "get_all_windows",
                        "build_window_lookup"}
    => \A k \in DOMAIN resolved :
          resolved[k].name = process_image[resolved[k].pid]

----------------------------------------------------------------------------
\* Further properties of the window manager

\* the handles the restore step of the step's operation wrote to
RestoredHandles ==
    { restore_log'[k].hwnd : k \in { j \in DOMAIN restore_log' : restore_log'[j].ok } }

\* window h sits on a monitor that is present before and after the step
OnStayingMonitor(h) ==
    /\ windows[h] # Absent
    /\ \E m \in monitor_rects \cap monitor_rects' :
          Origin(m) = MonitorOf(windows[h].rect, monitor_rects)

\* C30: an apply_profile moves no window of a monitor that is still
\* attached after it, and leaves the cache as it was when every monitor
\* is still attached after it.
C30_EvacuatesOnlyDetached ==
    [][ IsApplyStep =>
          /\ \A h \in Hwnds \ RestoredHandles :
                OnStayingMonitor(h) => windows'[h] = windows[h]
          /\ monitor_rects \subseteq monitor_rects' => cache_file' = cache_file
      ]_vars

\* An apply_profile whose profile keeps every present monitor origin moves
\* no window, apart from those it restores, and leaves the cache as it was
C30_NoEvacuationNoMove ==
    [][ (IsApplyStep /\ ~last_op'.evacuated) =>
          /\ \A h \in Hwnds \ RestoredHandles : windows'[h] = windows[h]
          /\ cache_file' = cache_file
      ]_vars

----------------------------------------------------------------------------
\* ProfileManager.apply_profile, statement by statement, with the failures
\* of the window management it runs

\* the monitor origins: the primary and two others
PrimaryOrigin == << 0, 0 >>
AllOrigins == {PrimaryOrigin} \cup SecondaryOrigins

\* the sets of origins a desktop or a profile has
OriginSets == { {PrimaryOrigin} \cup s : s \in SUBSET SecondaryOrigins }

\* what apply_monitor_settings may return
ReconcilerResults ==
    { [success |-> s, applied |-> a, skipped |-> << >>, disabled |-> << >>,
       failed |-> f] :
        s \in BOOLEAN, a \in {<< >>, << "D2" >>}, f \in {<< >>, << "D3" >>} }

\* line 131
ProfileNotFoundResult ==
    [success |-> FALSE, applied |-> << >>, skipped |-> << >>,
     disabled |-> << >>, failed |-> << "Profile not found" >>]

\* the records of the history
Event(ev) == [ev |-> ev]
MonitorEvent(ev, o) == [ev |-> ev, monitor |-> o]
RestoreEvent(pos) == [ev |-> "restore", monitor |-> pos.monitor, hwnd |-> pos.hwnd]

\* an exception inside a try block is not caught: the call ends there
AfterWindowFailure_Propagates(handler) == "return"

\* "except Exception: pass": where apply_profile continues after an
\* exception inside the try block that ends at `handler`
AfterWindowFailure(handler) == handler

\* the restore step runs whatever the reconciler reported
ShouldRestore_AlwaysRestore(manage, r) == manage

\* line 162: if manage_windows and result.success
ShouldRestore(manage, r) == manage /\ r.success

\* the windows are moved before the snapshot is taken
FirstWindowStep_EvacuateFirst == "evacuate"

\* lines 150-155: the snapshot, the cache write, then the evacuation
FirstWindowStep == "snapshot"

\* the snapshot get_window_positions() takes: handle and monitor origin
Snapshot(ws) == [h \in DOMAIN ws |-> [hwnd |-> h, monitor |-> ws[h]]]

\* move_windows_from_monitor(o): every window on o goes to the primary
Evacuated(ws, o) == [h \in DOMAIN ws |-> IF ws[h] = o THEN PrimaryOrigin ELSE ws[h]]

\* lines 173-176: the events of the restore loop and the windows after it
RECURSIVE RestoreLoop(_, _, _, _)
RestoreLoop(cached, k, st, newly_enabled) ==
    IF k > Len(cached) THEN st
    ELSE IF cached[k].monitor \in newly_enabled
         THEN RestoreLoop(cached, k + 1,
                          [windows |-> [st.windows EXCEPT ![cached[k].hwnd] =
                                                            cached[k].monitor],
                           events |-> Append(st.events, RestoreEvent(cached[k]))],
                          newly_enabled)
         ELSE RestoreLoop(cached, k + 1, st, newly_enabled)

MaxApplications == 2

OrchestratorInit ==
    /\ ReconcilerAtRest
    /\ MatcherIdle
    /\ PlacementIdle
    /\ DesktopIdle
    /\ StoreIdle
    /\ ProcessIdle
    /\ ap_pc = "idle"
    /\ ap_manage_windows = FALSE
    /\ ap_profile_positions = {}
    /\ ap_current_positions = {}
    /\ ap_todo = {}
    /\ ap_present \in OriginSets
    /\ ap_windows \in [Hwnds -> ap_present]
    /\ ap_cache = << >>
    /\ ap_saved = << >>
    /\ ap_result = Absent
    /\ ap_returned = Absent
    /\ ap_trace = << >>
    /\ ap_applications = 0

\* the other variable groups, which apply_profile leaves alone here
notOrchestratorVars ==
    << reconcilerVars, matcherVars, placementVars, desktopVars, storeVars,
       processVars >>

\* lines 129-145: the profile is found; the monitor origins now and in the
\* profile are computed
BeginApplyProfile ==
    /\ ap_pc = "idle"
    /\ ap_applications < MaxApplications
    /\ ap_applications' = ap_applications + 1
    /\ \E profile \in OriginSets, manage \in BOOLEAN :
          /\ ap_profile_positions' = profile
          /\ ap_manage_windows' = manage
          /\ ap_todo' = ap_present \ profile
          /\ ap_pc' = IF manage /\ ap_present \ profile # {}
                      THEN FirstWindowStep ELSE "reconcile"
    /\ ap_current_positions' = ap_present
    /\ ap_saved' = << >>
    /\ ap_result' = Absent
    /\ ap_returned' = Absent
    /\ ap_trace' = << >>
    /\ UNCHANGED << ap_present, ap_windows, ap_cache, notOrchestratorVars >>

\* lines 129-131: no profile has the name
ProfileNotFound ==
    /\ ap_pc = "idle"
    /\ ap_applications < MaxApplications
    /\ ap_applications' = ap_applications + 1
    /\ ap_result' = Absent
    /\ ap_returned' = ProfileNotFoundResult
    /\ ap_trace' = << Event("not found") >>
    /\ UNCHANGED << ap_pc, ap_manage_windows, ap_profile_positions,
                    ap_current_positions, ap_todo, ap_present, ap_windows,
                    ap_cache, ap_saved, notOrchestratorVars >>

\* line 150: saved_positions = window_manager.get_window_positions()
TakeSnapshot ==
    /\ ap_pc = "snapshot"
    /\ \/ /\ ap_saved' = Snapshot(ap_windows)
          /\ ap_trace' = Append(ap_trace, Event("snapshot"))
          /\ ap_pc' = "save"
       \/ /\ ap_saved' = ap_saved
          /\ ap_trace' = Append(ap_trace, Event("failure"))
          /\ ap_pc' = AfterWindowFailure("reconcile")
    /\ UNCHANGED << ap_manage_windows, ap_profile_positions, ap_current_positions,
                    ap_todo, ap_present, ap_windows, ap_cache, ap_result,
                    ap_returned, ap_applications, notOrchestratorVars >>

\* line 151: window_manager.save_positions_cache(saved_positions), which
\* returns False when the file cannot be written: the file is then as it
\* was, or was truncated by open(..., "w")
SaveCache ==
    /\ ap_pc = "save"
    /\ \/ /\ ap_cache' = ap_saved
          /\ ap_trace' = Append(ap_trace, Event("cache written"))
       \/ /\ ap_cache' \in {ap_cache, << >>}
          /\ ap_trace' = Append(ap_trace, Event("cache not written"))
    /\ ap_pc' = "evacuate"
    /\ UNCHANGED << ap_manage_windows, ap_profile_positions, ap_current_positions,
                    ap_todo, ap_present, ap_windows, ap_saved, ap_result,
                    ap_returned, ap_applications, notOrchestratorVars >>

\* lines 154-155: one iteration of the loop over monitors_to_disable, a set
EvacuateMonitor ==
    /\ ap_pc = "evacuate"
    /\ \E o \in ap_todo :
          \/ /\ ap_windows' = Evacuated(ap_windows, o)
             /\ ap_trace' = Append(ap_trace, MonitorEvent("evacuate", o))
             /\ ap_todo' = ap_todo \ {o}
             /\ ap_pc' = IF ap_todo \ {o} = {} THEN "reconcile" ELSE "evacuate"
          \/ /\ ap_windows' = ap_windows
             /\ ap_trace' = Append(ap_trace, Event("failure"))
             /\ ap_todo' = ap_todo
             /\ ap_pc' = AfterWindowFailure("reconcile")
    /\ UNCHANGED << ap_manage_windows, ap_profile_positions, ap_current_positions,
                    ap_present, ap_cache, ap_saved, ap_result, ap_returned,
                    ap_applications, notOrchestratorVars >>

\* line 160: result = apply_monitor_settings(profile.monitors, ...): the
\* monitors afterwards are the profile's, or those there were
Reconcile ==
    /\ ap_pc = "reconcile"
    /\ \E r \in ReconcilerResults :
          /\ ap_result' = r
          /\ ap_pc' = IF ShouldRestore(ap_manage_windows, r)
                      THEN "restore" ELSE "return"
    /\ ap_present' \in {ap_profile_positions, ap_present}
    /\ ap_trace' = Append(ap_trace, Event("reconcile"))
    /\ UNCHANGED << ap_manage_windows, ap_profile_positions, ap_current_positions,
                    ap_todo, ap_windows, ap_cache, ap_saved, ap_returned,
                    ap_applications, notOrchestratorVars >>

\* lines 165-176: the monitors are read again and the cached windows of
\* the newly enabled ones are restored; or get_monitors() raises
RestoreWindows ==
    /\ ap_pc = "restore"
    /\ \/ LET newly_enabled == ap_present \ ap_current_positions
              st == IF newly_enabled # {}
                    THEN RestoreLoop(ap_cache, 1,
                                     [windows |-> ap_windows, events |-> << >>],
                                     newly_enabled)
                    ELSE [windows |-> ap_windows, events |-> << >>]
          IN  /\ ap_windows' = st.windows
              /\ ap_trace' = ap_trace \o st.events
              /\ ap_pc' = "return"
       \/ /\ ap_windows' = ap_windows
          /\ ap_trace' = Append(ap_trace, Event("failure"))
          /\ ap_pc' = AfterWindowFailure("return")
    /\ UNCHANGED << ap_manage_windows, ap_profile_positions, ap_current_positions,
                    ap_todo, ap_present, ap_cache, ap_saved, ap_result,
                    ap_returned, ap_applications, notOrchestratorVars >>

\* line 180: return result
ReturnResult ==
    /\ ap_pc = "return"
    /\ ap_returned' = ap_result
    /\ ap_pc' = "idle"
    /\ UNCHANGED << ap_manage_windows, ap_profile_positions, ap_current_positions,
                    ap_todo, ap_present, ap_windows, ap_cache, ap_saved,
                    ap_result, ap_trace, ap_applications, notOrchestratorVars >>

OrchestratorNext ==
    \/ BeginApplyProfile
    \/ ProfileNotFound
    \/ TakeSnapshot
    \/ SaveCache
    \/ EvacuateMonitor
    \/ Reconcile
    \/ RestoreWindows
    \/ ReturnResult

OrchestratorSpec == OrchestratorInit /\ [][OrchestratorNext]_vars

----------------------------------------------------------------------------
\* Properties of apply_profile

\* the positions in the history of the events named ev
EventsNamed(ev) == { k \in DOMAIN ap_trace : ap_trace[k].ev = ev }

\* a call that found its profile has ended
ReturnedFromRun ==
    /\ ap_pc = "idle"
    /\ ap_applications > 0
    /\ EventsNamed("not found") = {}

\* C21: whatever fails in the window management of apply_profile, the
\* reconciliation has run exactly once when the call returns, and the
\* result returned is the one the reconciliation produced.
C21_FailuresSwallowed ==
    ReturnedFromRun =>
        /\ Cardinality(EventsNamed("reconcile")) = 1
        /\ ap_returned = ap_result
        /\ ap_result \in ReconcilerResults

\* C21 witness: a call in which the snapshot or the evacuation failed has
\* returned the result of the reconciliation
C21_Witness ==
    /\ ReturnedFromRun
    /\ \E f \in EventsNamed("failure"), r \in EventsNamed("reconcile") : f < r
    /\ ap_returned.success

====
